---- MODULE Spec2Model ----
(***************************************************************************)
(* Model of panini-scraper: the single-URL extraction pipeline             *)
(* (ScrapeProductUseCase.execute over PaniniScraperService.scrapeProduct   *)
(* and HttpClient.get) and the batch orchestrator                          *)
(* (ScrapeProductUseCase.executeMany).                                     *)
(*                                                                         *)
(* Strings the code inspects (URLs, element text) are sequences of         *)
(* one-character strings; error messages, which the code only concatenates *)
(* and carries, are TLA+ strings.  A JavaScript value handed in as a URL   *)
(* is a record [type, s]: type is the typeof-class of the value and s its  *)
(* characters when it is a string.                                         *)
(***************************************************************************)
EXTENDS Integers, Sequences, FiniteSets, TLC

(***************************************************************************)
(* Character sequences                                                     *)
(***************************************************************************)
\* a string literal as the sequence of its characters
Chars(s) == [k \in 1..Len(s) |-> SubSeq(s, k, k)]

HTTPS == Chars("https://")
PANINI == Chars("panini.com.br")

StartsWith(s, p) == Len(s) >= Len(p) /\ SubSeq(s, 1, Len(p)) = p

Drop(s, n) == SubSeq(s, n + 1, Len(s))

IsSpace(c) == c \in {" ", "\t", "\n"}

RECURSIVE TrimLeft(_)
TrimLeft(s) == IF s # <<>> /\ IsSpace(Head(s)) THEN TrimLeft(Tail(s)) ELSE s

RECURSIVE TrimRight(_)
TrimRight(s) ==
    IF s # <<>> /\ IsSpace(s[Len(s)]) THEN TrimRight(SubSeq(s, 1, Len(s) - 1)) ELSE s

Trim(s) == TrimRight(TrimLeft(s))

(***************************************************************************)
(* JavaScript values handed in as a URL                                    *)
(***************************************************************************)
StrVal(s) == [type |-> "string", s |-> s]
NullVal == [type |-> "null", s |-> <<>>]
NumberVal == [type |-> "number", s |-> <<>>]

IsString(v) == v.type = "string"

\* !v : null and the empty string are falsy; a non-zero number is truthy
Falsy(v) == v.type = "null" \/ (v.type = "string" /\ v.s = <<>>)

\* v || ''
OrEmpty(v) == IF Falsy(v) THEN StrVal(<<>>) ELSE v

(***************************************************************************)
(* Error classes                                                           *)
(***************************************************************************)
NoStatus == {}

ProductScrapingError(message, url, statusCode) ==
    [kind |-> "ProductScrapingError", message |-> message, url |-> url,
     statusCode |-> statusCode]

ProductNotFoundError(url) ==
    [kind |-> "ProductNotFoundError",
     message |-> "Product not found or page structure has changed",
     url |-> url, statusCode |-> {404}]

InvalidUrlError(url) ==
    [kind |-> "InvalidUrlError", message |-> "Invalid or malformed URL provided",
     url |-> url, statusCode |-> NoStatus]

\* new Error(message): no url, no statusCode
PlainError(message) ==
    [kind |-> "Error", message |-> message, url |-> NullVal, statusCode |-> NoStatus]

\* a thrown value that is not an Error (throw "String error")
NonErrorThrown ==
    [kind |-> "NonError", message |-> "", url |-> NullVal, statusCode |-> NoStatus]

InstanceOfProductScrapingError(e) ==
    e.kind \in {"ProductScrapingError", "ProductNotFoundError", "InvalidUrlError"}

InstanceOfError(e) == e.kind # "NonError"

\* no thrown value is ever a ProductEntity
InstanceOfProductEntity(e) == e.kind = "ProductEntity"

(***************************************************************************)
(* ScrapeProductUseCase: input check and normalizeUrl                      *)
(***************************************************************************)
\* !url || typeof url !== 'string' || url.trim().length === 0
UseCaseRejects(v) == Falsy(v) \/ ~IsString(v) \/ Trim(v.s) = <<>>

\* faulty variant: the trailing slash is kept
normalizeUrlKeepsSlash(s) ==
    IF ~StartsWith(s, Chars("http://")) /\ ~StartsWith(s, HTTPS) THEN HTTPS \o s ELSE s

\* url.trim().replace(/\/$/, '') : s is the trimmed input, one trailing slash
\* is removed; then the scheme is added when there is none
normalizeUrl(s) ==
    LET normalized == IF s # <<>> /\ s[Len(s)] = "/" THEN SubSeq(s, 1, Len(s) - 1) ELSE s
    IN  IF ~StartsWith(normalized, Chars("http://")) /\ ~StartsWith(normalized, HTTPS)
        THEN HTTPS \o normalized
        ELSE normalized

(***************************************************************************)
(* PaniniScraperService.validateUrl                                        *)
(***************************************************************************)
\* faulty variant: any http(s) URL is accepted
MatchesAnyHost(s) == StartsWith(s, Chars("http://")) \/ StartsWith(s, HTTPS)

\* /^https?:\/\/(www\.)?panini\.com\.br/
MatchesPaniniPrefix(s) ==
    \E scheme \in {Chars("http://"), HTTPS} : \E www \in {<<>>, Chars("www.")} :
        StartsWith(s, scheme \o www \o PANINI)

ServiceRejects(v) == Falsy(v) \/ ~IsString(v) \/ ~MatchesPaniniPrefix(v.s)

(***************************************************************************)
(* Numbers: a JavaScript number that parseFloat produces from decimal      *)
(* digits is the exact decimal m / 10^e, kept with no trailing zero in the *)
(* fraction so that equal numbers are equal records.                       *)
(***************************************************************************)
RECURSIVE Pow10(_)
Pow10(n) == IF n = 0 THEN 1 ELSE 10 * Pow10(n - 1)

RECURSIVE Normalise(_)
Normalise(x) ==
    IF x.e > 0 /\ x.m % 10 = 0 THEN Normalise([m |-> x.m \div 10, e |-> x.e - 1]) ELSE x

Zero == [m |-> 0, e |-> 0]

\* a > b
Gt(a, b) == a.m * Pow10(b.e) > b.m * Pow10(a.e)

Digits == {"0", "1", "2", "3", "4", "5", "6", "7", "8", "9"}

DigitVal(c) ==
    CASE c = "0" -> 0 [] c = "1" -> 1 [] c = "2" -> 2 [] c = "3" -> 3 [] c = "4" -> 4
      [] c = "5" -> 5 [] c = "6" -> 6 [] c = "7" -> 7 [] c = "8" -> 8 [] c = "9" -> 9

RECURSIVE DigitsToNat(_)
DigitsToNat(s) ==
    IF s = <<>> THEN 0 ELSE DigitsToNat(SubSeq(s, 1, Len(s) - 1)) * 10 + DigitVal(s[Len(s)])

\* the longest prefix of s whose characters all satisfy the class
RECURSIVE PrefixIn(_, _)
PrefixIn(s, class) ==
    IF s # <<>> /\ Head(s) \in class THEN <<Head(s)>> \o PrefixIn(Tail(s), class) ELSE <<>>

\* parseFloat(s) || 0 for a string without sign, exponent or leading space:
\* the longest prefix of the shape digits [. digits]; NaN (no digit) gives 0
parseFloatOrZero(s) ==
    LET int == PrefixIn(s, Digits)
        rest == Drop(s, Len(int))
        frac == IF rest # <<>> /\ Head(rest) = "." THEN PrefixIn(Tail(rest), Digits) ELSE <<>>
    IN  IF int = <<>> /\ frac = <<>> THEN Zero
        ELSE Normalise([m |-> DigitsToNat(int \o frac), e |-> Len(frac)])

\* text.match(/[\d.,]+/)[0] : the first maximal run of price characters
RECURSIVE FirstPriceRun(_)
FirstPriceRun(text) ==
    IF text = <<>> THEN <<>>
    ELSE IF Head(text) \in Digits \cup {".", ","} THEN PrefixIn(text, Digits \cup {".", ","})
    ELSE FirstPriceRun(Tail(text))

\* .replace(',', '.') : the first comma only
RECURSIVE ReplaceFirstComma(_)
ReplaceFirstComma(s) ==
    IF s = <<>> THEN <<>>
    ELSE IF Head(s) = "," THEN <<".">> \o Tail(s)
    ELSE <<Head(s)>> \o ReplaceFirstComma(Tail(s))

extractPriceFromText(text) ==
    IF text = <<>> THEN Zero
    ELSE LET priceMatch == FirstPriceRun(text)
         IN  IF priceMatch = <<>> THEN Zero
             ELSE \* .replace(/\./g, '').replace(',', '.')
                  parseFloatOrZero(ReplaceFirstComma(SelectSeq(priceMatch, LAMBDA c : c # ".")))

(***************************************************************************)
(* The parsed document ($ = cheerio.load(html)): a sequence of elements in *)
(* document order.  An element has a tag, a set of classes, a set of       *)
(* attributes [n, v], the text of its leading text node and the index of   *)
(* its parent element (0 for a child of body).                             *)
(***************************************************************************)
El(tag, cls, attrs, text, parent) ==
    [tag |-> tag, cls |-> cls, attrs |-> attrs, text |-> text, parent |-> parent]

\* the positions at which sub occurs in s
Occurrences(s, sub) ==
    {k \in 1..(Len(s) - Len(sub) + 1) : SubSeq(s, k, k + Len(sub) - 1) = sub}

\* s.includes(sub)
Includes(s, sub) == sub = <<>> \/ Occurrences(s, sub) # {}

\* a compound selector: tag ("" for any), required classes, required
\* attribute values ([name="value"]), required attribute names ([name]) and
\* required attribute substrings ([name*="value"])
Sel(tag, cls, attrs, has, sub) ==
    [tag |-> tag, cls |-> cls, attrs |-> attrs, has |-> has, sub |-> sub]

ByClass(c) == <<Sel("", {c}, {}, {}, {})>>

ByTag(tag) == <<Sel(tag, {}, {}, {}, {})>>

ByTagClass(tag, c) == <<Sel(tag, {c}, {}, {}, {})>>

ByAttr(tag, name, value) == <<Sel(tag, {}, {[n |-> name, v |-> value]}, {}, {})>>

HasAttr(tag, name) == <<Sel(tag, {}, {}, {name}, {})>>

AttrContains(tag, name, value) == <<Sel(tag, {}, {}, {}, {[n |-> name, v |-> value]})>>

MatchesCompound(el, sel) ==
    /\ sel.tag = "" \/ sel.tag = el.tag
    /\ sel.cls \subseteq el.cls
    /\ sel.attrs \subseteq el.attrs
    /\ \A name \in sel.has : \E a \in el.attrs : a.n = name
    /\ \A c \in sel.sub : \E a \in el.attrs : a.n = c.n /\ Includes(a.v, c.v)

RECURSIVE Ancestors(_, _)
Ancestors(doc, i) ==
    IF doc[i].parent = 0 THEN {} ELSE {doc[i].parent} \cup Ancestors(doc, doc[i].parent)

\* a selector is a sequence of compound selectors joined by the descendant
\* combinator ('.price-box .price')
RECURSIVE MatchesSelector(_, _, _)
MatchesSelector(doc, i, selector) ==
    /\ MatchesCompound(doc[i], selector[Len(selector)])
    /\ \/ Len(selector) = 1
       \/ \E a \in Ancestors(doc, i) :
              MatchesSelector(doc, a, SubSeq(selector, 1, Len(selector) - 1))

\* $(selector) : the indexes of the matching elements
Select(doc, selector) == {i \in 1..Len(doc) : MatchesSelector(doc, i, selector)}

Min(S) == CHOOSE x \in S : \A y \in S : x <= y

\* element.text() : its text nodes and those of its descendants, in document order
RECURSIVE ElementText(_, _, _)
ElementText(doc, i, j) ==
    IF j > Len(doc) THEN <<>>
    ELSE (IF j = i \/ i \in Ancestors(doc, j) THEN doc[j].text ELSE <<>>)
         \o ElementText(doc, i, j + 1)

\* $(selector).first().text() : "" when nothing matches
FirstText(doc, selector) ==
    LET S == Select(doc, selector)
    IN  IF S = {} THEN <<>> ELSE ElementText(doc, Min(S), Min(S))

(***************************************************************************)
(* Results of code that may throw                                          *)
(***************************************************************************)
Return(v) == [ok |-> TRUE, val |-> v]
Throw(e) == [ok |-> FALSE, err |-> e]

(***************************************************************************)
(* PaniniScraperService.extractTitle                                       *)
(***************************************************************************)

TitleSelectors ==
    << ByClass("product-title"),
       ByClass("product-name"),
       ByTagClass("h1", "title"),
       ByTag("h1"),
       ByClass("page-title"),
       ByAttr("", "data-testid", Chars("product-title")) >>

\* the first selector in list order whose first element has non-blank text
RECURSIVE FirstNonBlank(_, _, _)
FirstNonBlank(doc, selectors, k) ==
    IF k > Len(selectors) THEN <<>>
    ELSE LET title == Trim(FirstText(doc, selectors[k]))
         IN  IF title # <<>> THEN title ELSE FirstNonBlank(doc, selectors, k + 1)

extractTitle(doc) ==
    LET title == FirstNonBlank(doc, TitleSelectors, 1)
    IN  IF title # <<>> THEN Return(title)
        ELSE \* the text is passed where the class expects a URL
             Throw(ProductNotFoundError(StrVal(Chars("Could not find product title"))))

(***************************************************************************)
(* PaniniScraperService.extractPrices                                      *)
(***************************************************************************)

fullPriceSelectors ==
    << ByClass("old-price"), ByClass("price-original"), ByClass("price-old"),
       ByClass("was-price"), ByClass("regular-price"),
       <<Sel("", {"price", "old"}, {}, {}, {})>> >>

currentPriceSelectors ==
    << ByClass("price-current"), ByClass("current-price"), ByClass("new-price"),
       ByClass("price-sale"), ByClass("sale-price"), ByClass("special-price"),
       <<Sel("", {"price", "new"}, {}, {}, {})>>, ByClass("price") >>

generalSelectors ==
    << ByClass("product-price"),
       ByAttr("", "data-testid", Chars("price")),
       ByClass("value"), ByClass("amount"),
       ByClass("price-box") \o ByClass("price") >>

\* for (const selector of selectors) { ... if (extracted > 0) { price = extracted; break; } }
RECURSIVE FirstPositivePrice(_, _, _)
FirstPositivePrice(doc, selectors, k) ==
    IF k > Len(selectors) THEN Zero
    ELSE LET extracted == extractPriceFromText(FirstText(doc, selectors[k]))
         IN  IF Gt(extracted, Zero) THEN extracted
             ELSE FirstPositivePrice(doc, selectors, k + 1)

\* faulty variant: fullPrice stays 0 when no original price is found
extractPricesKeepsZero(doc) ==
    LET IfZero(price, other) == IF price = Zero THEN other ELSE price
        Prices(fullPrice, currentPrice) ==
            IF currentPrice = Zero
            THEN Throw(ProductNotFoundError(StrVal(Chars("Could not find product price"))))
            ELSE Return([fullPrice |-> fullPrice, currentPrice |-> currentPrice])
    IN  Prices(FirstPositivePrice(doc, fullPriceSelectors, 1),
               IfZero(FirstPositivePrice(doc, currentPriceSelectors, 1),
                      FirstPositivePrice(doc, generalSelectors, 1)))

extractPrices(doc) ==
    LET IfZero(price, other) == IF price = Zero THEN other ELSE price
        \* if (fullPrice === 0) fullPrice = currentPrice; if (currentPrice === 0) throw
        Prices(fullPrice, currentPrice) ==
            IF currentPrice = Zero
            THEN Throw(ProductNotFoundError(StrVal(Chars("Could not find product price"))))
            ELSE Return([fullPrice |-> IfZero(fullPrice, currentPrice),
                         currentPrice |-> currentPrice])
    IN  Prices(FirstPositivePrice(doc, fullPriceSelectors, 1),
               \* if (currentPrice === 0) { for (const selector of generalSelectors) ... }
               IfZero(FirstPositivePrice(doc, currentPriceSelectors, 1),
                      FirstPositivePrice(doc, generalSelectors, 1)))

(***************************************************************************)
(* Characters: letter case and substring search                            *)
(***************************************************************************)
LowerSeq == Chars("abcdefghijklmnopqrstuvwxyzêéçãíó")
UpperSeq == Chars("ABCDEFGHIJKLMNOPQRSTUVWXYZÊÉÇÃÍÓ")

AsciiLower == {LowerSeq[k] : k \in 1..26}
AsciiAlnum == AsciiLower \cup {UpperSeq[k] : k \in 1..26} \cup Digits

ToLowerChar(c) ==
    IF \E k \in 1..Len(UpperSeq) : UpperSeq[k] = c
    THEN LowerSeq[CHOOSE k \in 1..Len(UpperSeq) : UpperSeq[k] = c]
    ELSE c

\* s.toLowerCase()
ToLower(s) == [k \in 1..Len(s) |-> ToLowerChar(s[k])]

AllIn(s, class) == \A k \in 1..Len(s) : s[k] \in class

(***************************************************************************)
(* ProductEntity: validate, isValidUrl, toJSON                             *)
(***************************************************************************)
\* [-a-zA-Z0-9@:%._+~#=]{1,256}\.[a-zA-Z0-9()]{1,6}\b([-a-zA-Z0-9()@:%_+.~#?&//=]*)$
\* \b holds between positions k and k + 1 when exactly one of them is a word
\* character
MatchesHostAndTail(r) ==
    LET Word(k) == k >= 1 /\ k <= Len(r) /\ r[k] \in AsciiAlnum \cup {"_"}
        host == AsciiAlnum \cup {"-", "@", ":", "%", ".", "_", "+", "~", "#", "="}
        tld == AsciiAlnum \cup {"(", ")"}
        tail == AsciiAlnum \cup
                {"-", "(", ")", "@", ":", "%", "_", "+", ".", "~", "#", "?", "&", "/", "="}
    IN  \E i \in 1..Len(r) : \E j \in 1..6 :
            /\ i <= 256
            /\ i + 1 + j <= Len(r)
            /\ AllIn(SubSeq(r, 1, i), host)
            /\ r[i + 1] = "."
            /\ AllIn(SubSeq(r, i + 2, i + 1 + j), tld)
            /\ Word(i + 1 + j) # Word(i + 2 + j)
            /\ AllIn(Drop(r, i + 1 + j), tail)

\* /^https?:\/\/(www\.)?.../ : the optional group may be taken or skipped
isValidUrl(s) ==
    \E scheme \in {Chars("http://"), HTTPS} :
        /\ StartsWith(s, scheme)
        /\ LET r == Drop(s, Len(scheme))
           IN  \/ MatchesHostAndTail(r)
               \/ StartsWith(r, Chars("www.")) /\ MatchesHostAndTail(Drop(r, Len(Chars("www."))))

\* the checks of validate(), in order; the first that fails throws
validate(p) ==
    IF p.title = <<>> \/ Trim(p.title) = <<>>
    THEN Throw(PlainError("Product title is required"))
    ELSE IF p.fullPrice.m < 0
    THEN Throw(PlainError("Full price must be non-negative"))
    ELSE IF p.currentPrice.m < 0
    THEN Throw(PlainError("Current price must be non-negative"))
    ELSE IF Gt(p.currentPrice, p.fullPrice)
    THEN Throw(PlainError("Current price cannot be higher than full price"))
    ELSE IF p.url = <<>> \/ ~isValidUrl(p.url)
    THEN Throw(PlainError("Valid product URL is required"))
    ELSE IF p.id = <<>> \/ Trim(p.id) = <<>>
    THEN Throw(PlainError("Product ID is required"))
    ELSE Return(p)

\* faulty variant: the constructor does not validate
ProductEntityUnvalidated(p) == Return(p)

\* new ProductEntity(...).toJSON() : the constructor validates, toJSON copies the fields
ProductEntity(p) == validate(p)

(***************************************************************************)
(* PaniniScraperService.extractProductId                                   *)
(***************************************************************************)
\* element.attr(name) : "" stands for undefined, both are falsy
Attr(el, name) ==
    IF \E a \in el.attrs : a.n = name
    THEN (CHOOSE a \in el.attrs : a.n = name).v
    ELSE <<>>

\* $(selector).text() : the texts of all matching elements, concatenated
RECURSIVE TextOfAll(_, _, _)
TextOfAll(doc, S, k) ==
    IF k > Len(doc) THEN <<>>
    ELSE (IF k \in S THEN ElementText(doc, k, k) ELSE <<>>) \o TextOfAll(doc, S, k + 1)

\* $('body').text()
BodyText(doc) == TextOfAll(doc, {i \in 1..Len(doc) : doc[i].parent = 0}, 1)

referencia == ToLower(Chars("Referência"))

idSelectors ==
    << HasAttr("", "data-product-id"), HasAttr("", "data-sku"), ByClass("product-sku"),
       ByClass("sku"), ByClass("product-code"), ByClass("reference"),
       ByClass("codigo-produto") >>

\* element.attr('data-product-id') || element.attr('data-sku') || element.text().trim()
IdOfFirst(doc, selector) ==
    LET S == Select(doc, selector)
    IN  IF S = {} THEN <<>>
        ELSE LET el == doc[Min(S)]
             IN  IF Attr(el, "data-product-id") # <<>> THEN Attr(el, "data-product-id")
                 ELSE IF Attr(el, "data-sku") # <<>> THEN Attr(el, "data-sku")
                 ELSE Trim(ElementText(doc, Min(S), Min(S)))

RECURSIVE FirstId(_, _)
FirstId(doc, k) ==
    IF k > Len(idSelectors) THEN <<>>
    ELSE IF IdOfFirst(doc, idSelectors[k]) # <<>> THEN IdOfFirst(doc, idSelectors[k])
    ELSE FirstId(doc, k + 1)

\* $('table.additional-attributes, #product-attribute-specs-table').find('tr')
DetailsTables(doc) ==
    {i \in 1..Len(doc) :
        \/ doc[i].tag = "table" /\ "additional-attributes" \in doc[i].cls
        \/ [n |-> "id", v |-> Chars("product-attribute-specs-table")] \in doc[i].attrs}

DetailsRows(doc) ==
    {i \in 1..Len(doc) : doc[i].tag = "tr" /\ Ancestors(doc, i) \cap DetailsTables(doc) # {}}

\* row.find('td[data-th]')
RowCells(doc, row) ==
    {i \in 1..Len(doc) : /\ row \in Ancestors(doc, i)
                         /\ MatchesCompound(doc[i], HasAttr("td", "data-th")[1])}

\* the value of the first row, in document order from row k on, whose first
\* cell's data-th contains one of the labels and whose cells have text
RECURSIVE FirstLabelledRow(_, _, _)
FirstLabelledRow(doc, labels, k) ==
    IF k > Len(doc) THEN <<>>
    ELSE IF k \notin DetailsRows(doc) \/ RowCells(doc, k) = {}
    THEN FirstLabelledRow(doc, labels, k + 1)
    ELSE LET cells == RowCells(doc, k)
             dataThValue == Attr(doc[Min(cells)], "data-th")
             value == Trim(TextOfAll(doc, cells, 1))
         IN  IF /\ dataThValue # <<>>
                /\ \E l \in labels : Includes(ToLower(dataThValue), l)
                /\ value # <<>>
             THEN value
             ELSE FirstLabelledRow(doc, labels, k + 1)

\* allText.match(/referência[:\s]*([A-Z0-9-_]+)/i)[1] : the leftmost match
ReferenceAt(text, k) ==
    LET after == Drop(text, k + Len(referencia) - 1)
        rest == Drop(after, Len(PrefixIn(after, {":", " ", "\t", "\n"})))
    IN  PrefixIn(rest, AsciiAlnum \cup {"-", "_"})

globalReferenceMatch(text) ==
    LET hits == {k \in Occurrences(ToLower(text), referencia) : ReferenceAt(text, k) # <<>>}
    IN  IF hits = {} THEN <<>> ELSE ReferenceAt(text, Min(hits))

\* the part of s after its last occurrence of c (all of s when c does not occur)
RECURSIVE AfterLast(_, _)
AfterLast(s, c) ==
    IF \E k \in 1..Len(s) : s[k] = c
    THEN AfterLast(Tail(s), c)
    ELSE s

\* the part of s before its first occurrence of c
BeforeFirst(s, c) ==
    IF \E k \in 1..Len(s) : s[k] = c
    THEN SubSeq(s, 1, Min({k \in 1..Len(s) : s[k] = c}) - 1)
    ELSE s

\* faulty variant: the URL is consulted before the page text
extractProductIdUrlFirst(doc, url, now) ==
    LET refCells == Select(doc, ByAttr("td", "data-th", Chars("Referência")))
        reference == Trim(TextOfAll(doc, refCells, 1))
        byTable == FirstLabelledRow(doc, {referencia, Chars("código"), Chars("sku")}, 1)
        byText == globalReferenceMatch(BodyText(doc))
        cleanId == BeforeFirst(BeforeFirst(AfterLast(url, "/"), "?"), ".")
    IN  IF refCells # {} /\ reference # <<>> THEN reference
        ELSE IF FirstId(doc, 1) # <<>> THEN FirstId(doc, 1)
        ELSE IF DetailsTables(doc) # {} /\ byTable # <<>> THEN byTable
        ELSE IF cleanId # <<>> THEN cleanId
        ELSE IF byText # <<>> THEN byText
        ELSE Chars("panini-") \o now

\* now : the digits of Date.now()
extractProductId(doc, url, now) ==
    LET refCells == Select(doc, ByAttr("td", "data-th", Chars("Referência")))
        reference == Trim(TextOfAll(doc, refCells, 1))
        byTable == FirstLabelledRow(doc, {referencia, Chars("código"), Chars("sku")}, 1)
        byText == globalReferenceMatch(BodyText(doc))
        lastPart == AfterLast(url, "/")
        cleanId == BeforeFirst(BeforeFirst(lastPart, "?"), ".")
    IN  IF refCells # {} /\ reference # <<>> THEN reference
        ELSE IF FirstId(doc, 1) # <<>> THEN FirstId(doc, 1)
        ELSE IF DetailsTables(doc) # {} /\ byTable # <<>> THEN byTable
        ELSE IF byText # <<>> THEN byText
        ELSE IF cleanId # <<>> THEN cleanId
        ELSE Chars("panini-") \o now

(***************************************************************************)
(* PaniniScraperService.extractPreOrderStatus                              *)
(***************************************************************************)

preOrderIndicators == {Chars("pré-venda"), Chars("pre-order"), Chars("pré-lançamento")}

preOrderSelectors ==
    << ByClass("product-availability"), ByClass("availability-info"),
       ByClass("product-status"), ByClass("status-info"), ByClass("preorder-info") >>

\* preOrderElement.css('display') : the display property of the style of the
\* first matched element, kept in the document as the attribute "display"
CssDisplay(doc, S) == Attr(doc[Min(S)], "display")

RECURSIVE AnyStatusContainer(_, _)
AnyStatusContainer(doc, k) ==
    IF k > Len(preOrderSelectors) THEN FALSE
    ELSE \/ /\ Select(doc, preOrderSelectors[k]) # {}
            /\ \E ind \in preOrderIndicators :
                   Includes(ToLower(TextOfAll(doc, Select(doc, preOrderSelectors[k]), 1)), ind)
         \/ AnyStatusContainer(doc, k + 1)

extractPreOrderStatus(doc) ==
    LET preOrderElement == Select(doc, ByClass("infobase-label-presale"))
        preOrderText == Trim(ToLower(TextOfAll(doc, preOrderElement, 1)))
        \* $('.product-main, .product-info, .product-details').text().toLowerCase()
        area == {i \in 1..Len(doc) :
                    doc[i].cls \cap {"product-main", "product-info", "product-details"} # {}}
        productArea == ToLower(TextOfAll(doc, area, 1))
    IN  IF /\ preOrderElement # {}
           /\ Includes(preOrderText, Chars("pré-venda"))
           /\ CssDisplay(doc, preOrderElement) # Chars("none")
        THEN TRUE
        ELSE IF AnyStatusContainer(doc, 1) THEN TRUE
        ELSE IF productArea # <<>>
        THEN \E ind \in preOrderIndicators : Includes(productArea, ind)
        ELSE FALSE

(***************************************************************************)
(* PaniniScraperService.extractStockStatus                                 *)
(***************************************************************************)
outOfStockIndicators ==
    { Chars("produto indisponível"),
      Chars("fora de estoque"),
      Chars("esgotado"),
      Chars("sem estoque"),
      Chars("indisponível") }

extractStockStatus(doc) ==
    LET pageText == ToLower(BodyText(doc))
    IN  ~(\E indicator \in outOfStockIndicators : Includes(pageText, indicator))

(***************************************************************************)
(* PaniniScraperService.extractFormat                                      *)
(***************************************************************************)
extractFormat(doc) ==
    LET formatCell == Select(doc, ByAttr("td", "data-th", Chars("Encadernação")))
        format == Trim(TextOfAll(doc, formatCell, 1))
        byTable == FirstLabelledRow(doc, {ToLower(Chars("Encadernação")), Chars("formato")}, 1)
    IN  IF formatCell # {} /\ format # <<>> THEN format
        ELSE IF DetailsTables(doc) # {} /\ byTable # <<>> THEN byTable
        ELSE Chars("Formato não especificado")

(***************************************************************************)
(* PaniniScraperService.extractContributors                                *)
(***************************************************************************)

MaxNameLength == 100

\* text.split(',')
RECURSIVE SplitOnComma(_)
SplitOnComma(s) ==
    IF \E k \in 1..Len(s) : s[k] = ","
    THEN <<BeforeFirst(s, ",")>> \o SplitOnComma(Drop(s, Len(BeforeFirst(s, ",")) + 1))
    ELSE <<s>>

\* .split(',').map(name => name.trim()).filter(name => name.length > 0 && name.length < 100)
NamesOf(text) ==
    LET trimmed == [k \in 1..Len(SplitOnComma(text)) |-> Trim(SplitOnComma(text)[k])]
    IN  SelectSeq(trimmed, LAMBDA name : Len(name) > 0 /\ Len(name) < MaxNameLength)

\* faulty variant: repeated names are kept
DedupeKeepsAll(names) == names

\* Array.from(new Set(names)) : first occurrences, in order
RECURSIVE Dedupe(_)
Dedupe(names) ==
    IF names = <<>> THEN <<>>
    ELSE LET init == Dedupe(SubSeq(names, 1, Len(names) - 1))
             last == names[Len(names)]
         IN  IF \E k \in 1..Len(init) : init[k] = last THEN init ELSE Append(init, last)

extractContributors(doc) ==
    LET authorsCell == Select(doc, ByAttr("td", "data-th", Chars("Autores")))
        authorsText == Trim(TextOfAll(doc, authorsCell, 1))
        primary == IF authorsCell # {} /\ authorsText # <<>> THEN NamesOf(authorsText)
                   ELSE <<>>
        byTable == FirstLabelledRow(doc, {Chars("autor"), Chars("roteiro"), Chars("arte")}, 1)
        contributors == IF primary = <<>> /\ DetailsTables(doc) # {} /\ byTable # <<>>
                        THEN NamesOf(byTable)
                        ELSE primary
    IN  Dedupe(contributors)

(***************************************************************************)
(* PaniniScraperService.isPlaceholderImage and extractImageUrl             *)
(***************************************************************************)
baseUrl == HTTPS \o PANINI

placeholderPatterns ==
    { Chars("placeholder"),
      Chars("default/panini-placeholder"),
      Chars("no-image"),
      Chars("loading"),
      Chars("spinner") }

isPlaceholderImage(src) ==
    \E pattern \in placeholderPatterns : Includes(ToLower(src), ToLower(pattern))

HasImageExtension(src) ==
    \E ext \in {Chars(".jpg"), Chars(".jpeg"), Chars(".png"), Chars(".webp")} :
        Includes(src, ext)

\* a || b over strings and match lists: the first when it is not empty
Or(a, b) == IF a # <<>> THEN a ELSE b

\* a || b || ... || '' over attribute values
RECURSIVE FirstTruthy(_)
FirstTruthy(vals) ==
    IF vals = <<>> THEN <<>>
    ELSE IF Head(vals) # <<>> THEN Head(vals) ELSE FirstTruthy(Tail(vals))

SrcAttributes(el) ==
    <<Attr(el, "src"), Attr(el, "data-src"), Attr(el, "data-lazy"), Attr(el, "data-original")>>

externalImageSources ==
    << AttrContains("img", "src", Chars("cloudfront")), AttrContains("img", "src", Chars("amazonaws.com")),
       AttrContains("img", "data-src", Chars("cloudfront")),
       AttrContains("img", "data-original", Chars("cloudfront")),
       AttrContains("img", "data-lazy", Chars("cloudfront")) >>

\* stage 1: the first element of each CDN selector
RECURSIVE ExternalBySelector(_, _)
ExternalBySelector(doc, k) ==
    IF k > Len(externalImageSources) THEN <<>>
    ELSE LET S == Select(doc, externalImageSources[k])
             src == IF S = {} THEN <<>> ELSE FirstTruthy(SrcAttributes(doc[Min(S)]))
         IN  IF src # <<>> /\ ~isPlaceholderImage(src) THEN src
             ELSE ExternalBySelector(doc, k + 1)

\* the first value of a sequence that satisfies Test(_), "" when none does
FirstSuch(vals, Test(_)) ==
    LET hits == SelectSeq(vals, Test) IN IF hits = <<>> THEN <<>> ELSE Head(hits)

\* the src attributes of all img elements, in document order
RECURSIVE AllImageSources(_, _)
AllImageSources(doc, k) ==
    IF k > Len(doc) THEN <<>>
    ELSE (IF doc[k].tag = "img" THEN SrcAttributes(doc[k]) ELSE <<>>)
         \o AllImageSources(doc, k + 1)

\* stage 2: $('img').each(...) looking for a CDN source
foundExternalImage(doc) ==
    FirstSuch(AllImageSources(doc, 1),
              LAMBDA src : /\ src # <<>>
                           /\ \/ Includes(src, Chars("cloudfront"))
                              \/ Includes(src, Chars("amazonaws.com"))
                           /\ ~isPlaceholderImage(src))

Absolute(src) == IF src # <<>> /\ Head(src) = "/" THEN baseUrl \o src ELSE src

\* the checks stage 4 applies to the source of a selected element
StructuralSrc(src) ==
    IF /\ src # <<>>
       /\ ~isPlaceholderImage(src)
       /\ HasImageExtension(Absolute(src)) \/ Includes(Absolute(src), Chars("cloudfront"))
       /\ ~isPlaceholderImage(Absolute(src))
    THEN Absolute(src)
    ELSE <<>>

(***************************************************************************)
(* PaniniScraperService.tryConstructImageUrl: image references in scripts  *)
(***************************************************************************)
\* $(element).html() || '' of every script element, in document order
ScriptContents(doc) ==
    LET scripts == SelectSeq(doc, LAMBDA el : el.tag = "script")
    IN  [k \in 1..Len(scripts) |-> scripts[k].text]

RECURSIVE NextBrace(_, _)
NextBrace(s, i) ==
    IF i > Len(s) THEN 0
    ELSE IF s[i] \in {"{", "}"} THEN i ELSE NextBrace(s, i + 1)

\* scriptContent.match(/\{[^{}]*"key"[^{}]*\}/g): the brace-free fragments
\* between a "{" and the next "}" that contain the quoted key
RECURSIVE JsonFragments(_, _, _)
JsonFragments(s, key, i) ==
    IF i > Len(s) THEN <<>>
    ELSE IF s[i] # "{" THEN JsonFragments(s, key, i + 1)
    ELSE LET j == NextBrace(s, i + 1)
         IN  IF j # 0 /\ s[j] = "}" /\ Includes(SubSeq(s, i + 1, j - 1), key)
             THEN <<SubSeq(s, i, j)>> \o JsonFragments(s, key, j + 1)
             ELSE JsonFragments(s, key, i + 1)

jsonMatches(scriptContent) ==
    Or(JsonFragments(scriptContent, Chars("\"image\""), 1),
       Or(JsonFragments(scriptContent, Chars("\"src\""), 1),
          JsonFragments(scriptContent, Chars("\"url\""), 1)))

\* JSON.parse of a fragment without nested braces.  Member values are strings
\* (with the escapes \", \\ and \/), unsigned integers and the literals true,
\* false and null; any other text is a SyntaxError.
JsonToken(t, s) == [t |-> t, s |-> s]

RECURSIVE JsonString(_, _, _)
JsonString(s, i, acc) ==
    IF i > Len(s) THEN [end |-> 0, s |-> <<>>]
    ELSE IF s[i] = "\"" THEN [end |-> i, s |-> acc]
    ELSE IF s[i] = "\\"
    THEN IF i < Len(s) /\ s[i + 1] \in {"\"", "\\", "/"}
         THEN JsonString(s, i + 2, Append(acc, s[i + 1]))
         ELSE [end |-> 0, s |-> <<>>]
    ELSE JsonString(s, i + 1, Append(acc, s[i]))

RECURSIVE JsonTokens(_, _)
JsonTokens(s, i) ==
    IF i > Len(s) THEN <<>>
    ELSE IF IsSpace(s[i]) THEN JsonTokens(s, i + 1)
    ELSE IF s[i] \in {"{", "}", ":", ","}
    THEN <<JsonToken(s[i], <<>>)>> \o JsonTokens(s, i + 1)
    ELSE IF s[i] = "\""
    THEN LET str == JsonString(s, i + 1, <<>>)
         IN  IF str.end = 0 THEN <<JsonToken("error", <<>>)>>
             ELSE <<JsonToken("string", str.s)>> \o JsonTokens(s, str.end + 1)
    ELSE IF s[i] \in Digits
    THEN LET run == PrefixIn(Drop(s, i - 1), Digits)
         IN  IF Len(run) > 1 /\ Head(run) = "0" THEN <<JsonToken("error", <<>>)>>
             ELSE <<JsonToken("other", run)>> \o JsonTokens(s, i + Len(run))
    ELSE IF \E lit \in {"true", "false", "null"} : StartsWith(Drop(s, i - 1), Chars(lit))
    THEN LET lit == CHOOSE l \in {"true", "false", "null"} : StartsWith(Drop(s, i - 1), Chars(l))
         IN  <<JsonToken("other", Chars(lit))>> \o JsonTokens(s, i + Len(lit))
    ELSE <<JsonToken("error", <<>>)>>

JsonSyntaxError == [ok |-> FALSE, members |-> <<>>]

RECURSIVE JsonMembers(_, _, _)
JsonMembers(toks, i, acc) ==
    IF /\ i + 3 <= Len(toks)
       /\ toks[i].t = "string"
       /\ toks[i + 1].t = ":"
       /\ toks[i + 2].t \in {"string", "other"}
    THEN LET members == Append(acc, [key |-> toks[i].s, value |-> toks[i + 2]])
         IN  IF i + 3 = Len(toks) /\ toks[i + 3].t = "}"
             THEN [ok |-> TRUE, members |-> members]
             ELSE IF toks[i + 3].t = ","
             THEN JsonMembers(toks, i + 4, members)
             ELSE JsonSyntaxError
    ELSE JsonSyntaxError

JsonParse(text) ==
    LET toks == JsonTokens(text, 1)
    IN  IF Len(toks) < 2 \/ toks[1].t # "{" THEN JsonSyntaxError
        ELSE IF Len(toks) = 2 /\ toks[2].t = "}" THEN [ok |-> TRUE, members |-> <<>>]
        ELSE JsonMembers(toks, 2, <<>>)

imageFields == <<Chars("image"), Chars("src"), Chars("url"), Chars("imageUrl"), Chars("photo")>>

\* parsedJson[field] when it is a non-empty string, "" otherwise; the last
\* member with a given key is the one an object keeps
JsonStringField(members, field) ==
    LET hits == SelectSeq(members, LAMBDA m : m.key = field)
    IN  IF hits # <<>> /\ hits[Len(hits)].value.t = "string"
        THEN hits[Len(hits)].value.s
        ELSE <<>>

ReferencedImage(imageUrl) ==
    IF /\ imageUrl # <<>>
       /\ ~isPlaceholderImage(imageUrl)
       /\ Includes(imageUrl, Chars("http")) \/ Head(imageUrl) = "/"
    THEN Absolute(imageUrl)
    ELSE <<>>

FragmentImage(jsonMatch) ==
    LET Image(parsedJson) ==
            IF ~parsedJson.ok THEN <<>>
            ELSE FirstTruthy([k \in 1..Len(imageFields) |->
                     ReferencedImage(JsonStringField(parsedJson.members, imageFields[k]))])
    IN  Image(JsonParse(jsonMatch))

imageExtensions == {Chars("jpg"), Chars("jpeg"), Chars("png"), Chars("webp")}

\* [^"'\s]+\.(jpg|jpeg|png|webp) matched greedily from position i of the
\* lower-cased text: the position where the longest match ends, 0 for no match
ExtensionEnd(low, i) ==
    LET Stops(k) == low[k] \in {"\"", "'"} \/ IsSpace(low[k])
        ends == { p + 1 + Len(ext) : p \in i..Len(low), ext \in imageExtensions }
        fits == { e \in ends : /\ e <= Len(low)
                               /\ \A k \in i..e : ~Stops(k)
                               /\ \E ext \in imageExtensions :
                                     /\ e - Len(ext) - 1 >= i
                                     /\ low[e - Len(ext)] = "."
                                     /\ SubSeq(low, e - Len(ext) + 1, e) = ext }
    IN  IF fits = {} THEN 0 ELSE CHOOSE e \in fits : \A f \in fits : e >= f

\* /https:\/\/d[a-z0-9]+\.cloudfront\.net\/[^"'\s]+\.(jpg|jpeg|png|webp)/gi at
\* position i: where the match ends, 0 for no match
CloudFrontEnd(low, i) ==
    LET rest == Drop(low, i - 1)
        host == IF StartsWith(rest, Chars("https://d"))
                THEN PrefixIn(Drop(rest, Len(Chars("https://d"))), AsciiLower \cup Digits)
                ELSE <<>>
        path == i + Len(Chars("https://d")) + Len(host)
    IN  IF host # <<>> /\ StartsWith(Drop(low, path - 1), Chars(".cloudfront.net/"))
        THEN ExtensionEnd(low, path + Len(Chars(".cloudfront.net/")))
        ELSE 0

RECURSIVE cloudFrontMatch(_, _)
cloudFrontMatch(scriptContent, i) ==
    LET From(end) ==
            IF end # 0
            THEN <<SubSeq(scriptContent, i, end)>> \o cloudFrontMatch(scriptContent, end + 1)
            ELSE cloudFrontMatch(scriptContent, i + 1)
    IN  IF i > Len(scriptContent) THEN <<>>
        ELSE From(CloudFrontEnd(ToLower(scriptContent), i))

\* /https:\/\/[^"'\s]+\.(jpg|jpeg|png|webp)/gi
RECURSIVE cdnImageMatch(_, _)
cdnImageMatch(scriptContent, i) ==
    LET End(low) == IF StartsWith(Drop(low, i - 1), HTTPS)
                    THEN ExtensionEnd(low, i + Len(HTTPS))
                    ELSE 0
        From(end) ==
            IF end # 0
            THEN <<SubSeq(scriptContent, i, end)>> \o cdnImageMatch(scriptContent, end + 1)
            ELSE cdnImageMatch(scriptContent, i + 1)
    IN  IF i > Len(scriptContent) THEN <<>>
        ELSE From(End(ToLower(scriptContent)))

validImages(scriptContent) ==
    SelectSeq(cdnImageMatch(scriptContent, 1),
              LAMBDA url : /\ ~isPlaceholderImage(url)
                           /\ \A host \in {"facebook.com", "twitter.com", "instagram.com"} :
                                  ~Includes(url, Chars(host)))

\* the body of scripts.each: the reference one script yields, "" for none
ScriptImage(scriptContent) ==
    LET ByJson(matches) ==
            FirstTruthy([k \in 1..Len(matches) |-> FragmentImage(matches[k])])
        \* if (matches && matches.length > 0) return matches[0]
        First(matches) == IF matches # <<>> THEN Head(matches) ELSE <<>>
    IN  Or(ByJson(jsonMatches(scriptContent)),
           Or(First(cloudFrontMatch(scriptContent, 1)),
              First(validImages(scriptContent))))

\* stage 3: the first script that yields a reference
tryConstructImageUrl(doc) ==
    LET Each(scripts) == FirstTruthy([k \in 1..Len(scripts) |-> ScriptImage(scripts[k])])
    IN  Each(ScriptContents(doc))

imageSelectors ==
    << ByClass("product-image") \o ByTag("img"), ByClass("product-photo") \o ByTag("img"),
       ByClass("main-image") \o ByTag("img"), ByClass("product-gallery") \o ByTag("img"),
       ByClass("gallery") \o ByTag("img"), ByClass("hero-image") \o ByTag("img"),
       ByClass("primary-image") \o ByTag("img"),
       ByAttr("", "data-testid", Chars("product-image")) \o ByTag("img"),
       ByClass("product-media") \o ByTag("img"),
       AttrContains("img", "alt", Chars("produto")), AttrContains("img", "alt", Chars("product")) >>

RECURSIVE BySelector(_, _)
BySelector(doc, k) ==
    IF k > Len(imageSelectors) THEN <<>>
    ELSE LET Src(S) == IF S = {} THEN <<>> ELSE FirstTruthy(SrcAttributes(doc[Min(S)]))
         IN  Or(StructuralSrc(Src(Select(doc, imageSelectors[k]))), BySelector(doc, k + 1))

containerSelectors ==
    << ByClass("product-image-main"), ByClass("product-images"),
       ByClass("image-container"), ByClass("hero-section") >>

\* container.find('img').first() : src || data-src only
RECURSIVE ByContainer(_, _)
ByContainer(doc, k) ==
    IF k > Len(containerSelectors) THEN <<>>
    ELSE LET Src(S) ==
                 IF S = {} THEN <<>>
                 ELSE FirstTruthy(<<Attr(doc[Min(S)], "src"), Attr(doc[Min(S)], "data-src")>>)
         IN  Or(StructuralSrc(Src(Select(doc, containerSelectors[k] \o ByTag("img")))),
                ByContainer(doc, k + 1))

\* stage 5: the first acceptable source of any img, made absolute
fallbackImage(doc) ==
    Absolute(FirstSuch(AllImageSources(doc, 1),
                       LAMBDA src : /\ src # <<>>
                                    /\ ~isPlaceholderImage(src)
                                    /\ \A word \in {"logo", "nav", "icon", "banner"} :
                                           ~Includes(src, Chars(word))
                                    /\ HasImageExtension(src)))

extractImageUrl(doc) ==
    Or(ExternalBySelector(doc, 1),
       Or(foundExternalImage(doc),
          Or(tryConstructImageUrl(doc),
             Or(BySelector(doc, 1),
                Or(ByContainer(doc, 1), fallbackImage(doc))))))

(***************************************************************************)
(* HttpClient.get: what the transport (axios) does with a request, and     *)
(* what get makes of it                                                    *)
(***************************************************************************)
AxiosOk(page) == [t |-> "ok", data |-> page, message |-> "", status |-> {}]
AxiosError(message, status) ==
    [t |-> "axios", data |-> <<>>, message |-> message, status |-> status]
OtherError(message) == [t |-> "error", data |-> <<>>, message |-> message, status |-> {}]
OtherThrown == [t |-> "nonerror", data |-> <<>>, message |-> "", status |-> {}]

\* try { return await this.client.get(url) } catch (error) { ... }
HttpClientGet(r) ==
    IF r.t = "ok" THEN Return(r.data)
    ELSE IF r.t = "axios"
    THEN \* axiosError.response?.status || 'unknown'
         LET status == IF r.status = {} THEN "unknown"
                       ELSE ToString(CHOOSE c \in r.status : TRUE)
         IN  Throw(PlainError("HTTP request failed: " \o r.message \o " (" \o status \o ")"))
    ELSE IF r.t = "error" THEN Throw(PlainError(r.message))
    ELSE Throw(NonErrorThrown)

(***************************************************************************)
(* PaniniScraperService.scrapeProduct: the stages, the extractor sequence  *)
(* and the catch block                                                     *)
(***************************************************************************)
\* faulty variant: the request is made before the URL is validated
StageOrderFetchFirst == <<"fetch", "validate", "parse", "assemble">>

StageOrder == <<"validate", "fetch", "parse", "assemble">>

\* the stage scrapeProduct enters after the given one
StageAfter(stage) ==
    LET k == CHOOSE j \in 1..Len(StageOrder) : StageOrder[j] = stage
    IN  IF k = Len(StageOrder) THEN "settled" ELSE StageOrder[k + 1]

\* faulty variant: a failed fetch or parse is tried again
AfterFailureRetries(stage) == "fetch"

\* where scrapeProduct is after its catch block has thrown for a failure in
\* the given stage: the promise is rejected, no stage is entered again
AfterFailure(stage) == "settled"

\* faulty variant: an Error is re-thrown as it is
ServiceCatchRethrows(error, url) ==
    IF InstanceOfError(error) THEN error
    ELSE ProductScrapingError("Failed to scrape product: Unknown error occurred",
                              StrVal(url), NoStatus)

\* faulty variant: the message is passed on without the prefix
ServiceCatchNoPrefix(error, url) ==
    ProductScrapingError(IF InstanceOfError(error) THEN error.message
                         ELSE "Unknown error occurred",
                         StrVal(url), NoStatus)

\* catch (error) { if (error instanceof ProductEntity) throw error; ... }
ServiceCatch(error, url) ==
    IF InstanceOfProductEntity(error) THEN error
    ELSE LET errorMessage == IF InstanceOfError(error) THEN error.message
                             ELSE "Unknown error occurred"
         IN  ProductScrapingError("Failed to scrape product: " \o errorMessage,
                                  StrVal(url), NoStatus)

\* try { ... } catch (error) { ... } : what the block settles with
TryCatch(outcome, url) ==
    IF outcome.ok THEN outcome ELSE Throw(ServiceCatch(outcome.err, url))

NoFields ==
    [title |-> <<>>, fullPrice |-> Zero, currentPrice |-> Zero, isPreOrder |-> FALSE,
     inStock |-> FALSE, imageUrl |-> <<>>, url |-> <<>>, format |-> <<>>,
     contributors |-> <<>>, id |-> <<>>]

\* faulty variant: the prices are extracted before the title
ExtractorOrderPricesFirst ==
    <<"prices", "title", "preOrder", "stock", "image", "format", "contributors", "id">>

\* the extractors in the order scrapeProduct calls them
ExtractorOrder ==
    <<"title", "prices", "preOrder", "stock", "image", "format", "contributors", "id">>

\* what an extractor that may throw does on the page; the others return
Attempt(name, doc) ==
    IF name = "title" THEN extractTitle(doc)
    ELSE IF name = "prices" THEN extractPrices(doc)
    ELSE Return(<<>>)

\* the extractors called on a page: the first that throws ends the sequence
ExtractorsRun(doc) ==
    LET Upto(failing) ==
            IF failing = {} THEN ExtractorOrder ELSE SubSeq(ExtractorOrder, 1, Min(failing))
    IN  Upto({k \in 1..Len(ExtractorOrder) : ~Attempt(ExtractorOrder[k], doc).ok})

\* the fields extracted, or what the last extractor called threw
Extract(doc, url, now) ==
    LET Of(ran) == Attempt(ran[Len(ran)], doc)
        Fields(last, title, prices) ==
            IF ~last.ok THEN last
            ELSE Return([title |-> title.val,
                         fullPrice |-> prices.val.fullPrice,
                         currentPrice |-> prices.val.currentPrice,
                         isPreOrder |-> extractPreOrderStatus(doc),
                         inStock |-> extractStockStatus(doc),
                         imageUrl |-> extractImageUrl(doc),
                         url |-> url,
                         format |-> extractFormat(doc),
                         contributors |-> extractContributors(doc),
                         id |-> extractProductId(doc, url, now)])
    IN  Fields(Of(ExtractorsRun(doc)), extractTitle(doc), extractPrices(doc))

(***************************************************************************)
(* ScrapeProductUseCase.executeMany: the loop, the catch block, the result *)
(***************************************************************************)
\* faulty variant: the loop walks the list from its end
IterationPositionReversed(n, k) == n - k + 1

\* for (const url of urls) : the position the k-th iteration visits
IterationPosition(n, k) == k

\* faulty variant: the call is not awaited
AwaitsExecuteNever == FALSE

\* await this.execute(url) : the loop waits for the item's promise to settle
AwaitsExecute == TRUE

\* faulty variant: only the classified errors are caught
BatchCatchesScrapingOnly(error) == InstanceOfProductScrapingError(error)

\* catch (error) { ... } : the clause has no filter, it catches any thrown value
BatchCatches(error) == TRUE

\* faulty variant: the entry reports the URL the product was scraped from
SuccessEntryNormalized(url, product) == [url |-> StrVal(product.url), product |-> product]

\* successes.push({ url, product })
SuccessEntry(url, product) == [url |-> url, product |-> product]

\* faulty variant: every caught error is wrapped
CategorizeAlwaysWraps(error, url) ==
    ProductScrapingError(IF InstanceOfError(error) THEN error.message ELSE "Unknown error",
                         url, NoStatus)

\* error instanceof ProductScrapingError ? error : new ProductScrapingError(...)
Categorize(error, url) ==
    IF InstanceOfProductScrapingError(error) THEN error
    ELSE ProductScrapingError(IF InstanceOfError(error) THEN error.message
                              ELSE "Unknown error",
                              url, NoStatus)

\* failures.push({ url, error: scrapingError, message: scrapingError.message })
FailureEntry(url, error) ==
    LET scrapingError == Categorize(error, url)
    IN  [url |-> url, error |-> scrapingError, message |-> scrapingError.message]

\* faulty variant: totalProcessed counts the successes only
BatchScrapeResultSuccessesOnly(us, succ, fail) ==
    [successes |-> succ, failures |-> fail, totalProcessed |-> Len(succ),
     successCount |-> Len(succ), failureCount |-> Len(fail)]

BatchScrapeResult(us, succ, fail) ==
    [successes |-> succ, failures |-> fail, totalProcessed |-> Len(us),
     successCount |-> Len(succ), failureCount |-> Len(fail)]

(***************************************************************************)
(* Inputs: the values a caller hands in, the pages the site serves, the    *)
(* ways a request fails, the repository stub the unit tests inject         *)
(***************************************************************************)
MaxUrls == 3

UrlA == Chars("https://panini.com.br/a")
UrlB == Chars(" panini.com.br/b/ ")
UrlWww == Chars("http://www.panini.com.br/c/")
UrlForeign == Chars("https://example.com/x")
UrlSpaced == Chars("https://panini.com.br/a b")
UrlSlashes == Chars("http://panini.com.br/d//")
UrlQuery == Chars("https://panini.com.br/x-men.html?ref=1")

\* the inputs of a list
BatchInputs == {StrVal(UrlA), StrVal(UrlB), StrVal(UrlForeign), NullVal}

\* the inputs of a single call
Inputs ==
    BatchInputs \cup
    {StrVal(UrlWww), StrVal(UrlSpaced), StrVal(UrlSlashes), StrVal(UrlQuery),
     StrVal(Chars("  ")), StrVal(<<>>),
     NumberVal}

TitleText == Chars("X-Men")

PageOk ==
    << El("h1", {}, {}, TitleText, 0),
       El("div", {"price"}, {}, Chars("R$ 29,90"), 0) >>

PageDiscount ==
    << El("h1", {"title"}, {}, TitleText, 0),
       El("div", {"price-box"}, {}, <<>>, 0),
       El("span", {"old-price"}, {}, Chars("R$ 39,90"), 2),
       El("span", {"price"}, {}, Chars("R$ 29,90"), 2),
       El("script", {}, {},
          Chars("{\"image\":\"/m/x.jpg\"}"), 0) >>

PageNoTitle ==
    << El("div", {"price"}, {}, Chars("R$ 29,90"), 0) >>

PageNoPrice ==
    << El("h1", {}, {}, TitleText, 0),
       El("div", {"price"}, {}, Chars("Sob consulta"), 0) >>

PageInverted ==
    << El("h1", {}, {}, TitleText, 0),
       El("span", {"old-price"}, {}, Chars("R$ 10,00"), 0),
       El("span", {"price"}, {}, Chars("R$ 29,90"), 0) >>

PageEmpty == <<>>

\* <div class="infobase-label-presale" style="display: none">Pré-venda</div>
HiddenPresale(parent) ==
    El("div", {"infobase-label-presale"}, {[n |-> "display", v |-> Chars("none")]},
       Chars("Pré-venda"), parent)

\* the hidden indicator as a child of body
PageHiddenPresale == PageOk \o <<HiddenPresale(0)>>

\* the hidden indicator inside the product area
PagePresaleInInfo ==
    PageOk \o <<El("div", {"product-info"}, {}, Chars("Capa dura"), 0), HiddenPresale(3)>>

\* a script that names a placeholder on the CDN before a product image
PageScriptPlaceholder ==
    PageOk \o
    <<El("script", {}, {},
         Chars("a='https://d1.cloudfront.net/loading.png';b='https://d1.cloudfront.net/x.png'"),
         0)>>

\* a placeholder img before a product image with a relative source
PageImgPlaceholder ==
    PageOk \o
    << El("img", {}, {[n |-> "src", v |-> Chars("/m/placeholder.jpg")]}, <<>>, 0),
       El("img", {}, {[n |-> "src", v |-> Chars("/m/x.jpg")]}, <<>>, 0) >>

\* an img whose source is a path relative to the page
PageImgRelative ==
    PageOk \o <<El("img", {}, {[n |-> "src", v |-> Chars("m/x.jpg")]}, <<>>, 0)>>

\* <table class="additional-attributes"><tr><td data-th=label>text</td></tr>... :
\* the table as element 3 of a page, one row and one cell per pair
DetailsTable(pairs) ==
    <<El("table", {"additional-attributes"}, {}, <<>>, 0)>> \o
    [k \in 1..(2 * Len(pairs)) |->
        IF k % 2 = 1 THEN El("tr", {}, {}, <<>>, 3)
        ELSE El("td", {}, {[n |-> "data-th", v |-> pairs[k \div 2][1]]},
                pairs[k \div 2][2], 2 + k)]

\* an 'Autores' cell with a repeated name, an empty token, a name of 100
\* characters and one of 99; a 'Roteiro' row the fallback would take
PageAuthors ==
    PageOk \o
    DetailsTable(<< <<Chars("Roteiro"), Chars("C")>>,
                   <<Chars("Autores"),
                     Chars("A, A,, B ,") \o [k \in 1..MaxNameLength |-> "x"] \o Chars(", ")
                        \o [k \in 1..(MaxNameLength - 1) |-> "y"]>> >>)

\* an 'Autores' cell without text; rows for the fallback, the first of
\* them empty
PageAuthorsByLabel ==
    PageOk \o
    DetailsTable(<< <<Chars("Autores"), Chars(" ")>>,
                   <<Chars("Arte final"), <<>>>>,
                   <<Chars("Roteiro"), Chars("C, D, C")>>,
                   <<Chars("Arte"), Chars("E")>> >>)

Pages ==
    {PageOk, PageDiscount, PageNoTitle, PageNoPrice, PageInverted, PageEmpty,
     PageHiddenPresale, PagePresaleInInfo, PageScriptPlaceholder, PageImgPlaceholder,
     PageImgRelative, PageAuthors, PageAuthorsByLabel}

\* the texts a price element may hold: every text of up to MaxPriceText
\* characters over digits, separators, a sign and a space, and some longer ones
MaxPriceText == 3

PriceTexts ==
    UNION {[1..n -> {"1", "0", ".", ",", "-", " "}] : n \in 0..MaxPriceText} \cup
    { Chars("R$ 1.234,56"), Chars("R$ 45,67 BRL"), Chars("Aprox. R$ 10,00"),
      Chars("R$ 1.000.000,5"), Chars("10,00,5") }

\* <h1>title</h1><div class="price">text</div>
PagePriced(text) ==
    << El("h1", {}, {}, TitleText, 0),
       El("div", {"price"}, {}, text, 0) >>

\* pages with price elements at several locations: each location holds no
\* element, or elements with the given texts; the generic locations come
\* first in the document and the original-price locations last
PriceElements(cls, texts) ==
    [k \in 1..Len(texts) |-> El("span", {cls}, {}, texts[k], 0)]

PagePriceLocations(old, priceOld, special, price, productPrice, amount) ==
    << El("h1", {}, {}, TitleText, 0) >>
    \o PriceElements("amount", amount) \o PriceElements("product-price", productPrice)
    \o PriceElements("price", price) \o PriceElements("special-price", special)
    \o PriceElements("price-old", priceOld) \o PriceElements("old-price", old)

PriceLocationPages ==
    { PagePriceLocations(old, priceOld, special, price, productPrice, amount) :
        old \in { <<>>, <<Chars("R$ 0,00")>>, <<Chars("R$ 50,00")>>,
                  <<<<>>, Chars("R$ 70,00")>> },
        priceOld \in { <<>>, <<Chars("R$ 60,00")>> },
        special \in { <<>>, <<<<>>>>, <<Chars("R$ 40,00")>> },
        price \in { <<>>, <<Chars("R$ 30,00")>> },
        productPrice \in { <<>>, <<Chars("R$ 20,00")>> },
        amount \in { <<>>, <<Chars("R$ 10,00")>> } }

\* pages with up to two dedicated pre-sale elements, a status container, a
\* product-area container and a footer, each absent or with the given text;
\* a dedicated element is given as <<display, text>>
PresaleLabels(labels) ==
    [k \in 1..Len(labels) |->
        El("div", {"infobase-label-presale"},
           IF labels[k][1] = <<>> THEN {} ELSE {[n |-> "display", v |-> labels[k][1]]},
           labels[k][2], 0)]

PagePresale(labels, status, area, footer) ==
    PageOk \o PresaleLabels(labels)
    \o [k \in 1..Len(status) |-> El("div", {"product-status"}, {}, status[k], 0)]
    \o [k \in 1..Len(area) |-> El("div", {"product-details"}, {}, area[k], 0)]
    \o [k \in 1..Len(footer) |-> El("footer", {}, {}, footer[k], 0)]

PresalePages ==
    { PagePresale(first \o second, status, area, footer) :
        first \in { <<>>, << <<<<>>, Chars("Pré-Venda")>> >>,
                    << <<Chars("none"), Chars("Pré-venda")>> >>,
                    << <<Chars("none"), <<>>>> >> },
        second \in { <<>>, << <<Chars("block"), Chars(" Pré-venda ")>> >> },
        status \in { <<>>, <<Chars("Em estoque")>>, <<Chars("Pre-Order")>> },
        area \in { <<>>, <<Chars("Capa dura")>>, <<Chars("PRÉ-LANÇAMENTO")>> },
        footer \in { <<>>, <<Chars("Pré-venda: novidades")>> } }

\* pages with a details table of two rows, then elements that carry an id
\* and a paragraph that names a reference
PageIds(row1, row2, idElements, paragraphs) ==
    PageOk \o DetailsTable(<<row1, row2>>) \o idElements
    \o [k \in 1..Len(paragraphs) |-> El("p", {}, {}, paragraphs[k], 0)]

IdPages ==
    { PageIds(row1, row2, idElements, paragraphs) :
        row1 \in { <<Chars("Referência"), Chars(" REF1 ")>>,
                   <<Chars("Referência"), Chars(" ")>>,
                   <<Chars("Formato"), Chars("Capa dura")>> },
        row2 \in { <<Chars("Código do produto"), Chars("COD3")>>,
                   <<Chars("Páginas"), Chars("96")>> },
        idElements \in { <<>>,
                         <<El("span", {"sku"}, {}, Chars(" SKU2 "), 0)>>,
                         <<El("span", {"product-code"}, {}, Chars("PC6"), 0),
                           El("div", {}, {[n |-> "data-sku", v |-> Chars("SKU5")]},
                              Chars("texto"), 0)>> },
        paragraphs \in { <<>>, <<Chars("REFERÊNCIA:  TXT-4 x")>> } }

\* pages with up to MaxImages img elements, each of one of these kinds, and
\* possibly a script that names an image on the CDN
MaxImages == 2

Img(attrs) == El("img", {}, attrs, <<>>, 0)

ImageKinds ==
    { Img({[n |-> "src", v |-> Chars("/m/local.jpg")]}),
      Img({[n |-> "src", v |-> Chars("https://d1.cloudfront.net/x.jpg")]}),
      Img({[n |-> "src", v |-> Chars("https://d1.cloudfront.net/loading.gif")]}),
      Img({[n |-> "src", v |-> Chars("/m/logo.png")]}),
      Img({[n |-> "src", v |-> Chars("/m/alt.webp")], [n |-> "alt", v |-> Chars("product")]}),
      Img({[n |-> "src", v |-> Chars("/m/loading.gif")],
           [n |-> "data-src", v |-> Chars("https://s3.amazonaws.com/z.jpg")]}),
      Img({[n |-> "src", v |-> Chars("/m/thumb.jpg")],
           [n |-> "data-src", v |-> Chars("https://d1.cloudfront.net/h.jpg")]}),
      Img({[n |-> "data-lazy", v |-> Chars("https://d1.cloudfront.net/d.jpg")]}) }

\* an img in a container, with a source the last resort would skip
PageImgContainer ==
    PageOk \o << El("div", {"product-images"}, {}, <<>>, 0),
                 El("img", {}, {[n |-> "src", v |-> Chars("/m/logo-x.jpg")]}, <<>>, 3) >>

ImagePages ==
    {PageImgContainer} \cup
    { PageOk \o imgs \o scripts :
        imgs \in UNION {[1..n -> ImageKinds] : n \in 0..MaxImages},
        scripts \in { <<>>,
                      <<El("script", {}, {}, Chars("i='https://d1.cloudfront.net/s.png'"), 0)>> } }

TransportOutcomes ==
    {AxiosOk(page) : page \in Pages} \cup
    {AxiosOk(page) : page \in ImagePages} \cup
    {AxiosOk(page) : page \in IdPages} \cup
    {AxiosOk(page) : page \in PresalePages} \cup
    {AxiosOk(page) : page \in PriceLocationPages} \cup
    {AxiosOk(PagePriced(text)) : text \in PriceTexts} \cup
    { AxiosError("Request failed with status code 500", {500}),
      AxiosError("timeout of 15000ms exceeded", {}),
      OtherError("socket hang up"),
      OtherThrown }

\* the answers explored for the items of a list
BatchTransportOutcomes ==
    { AxiosOk(PageOk), AxiosOk(PageNoPrice),
      AxiosError("timeout of 15000ms exceeded", {}),
      OtherThrown }

\* the digits of Date.now()
ClockValues == {Chars("17")}

StubProduct(url) ==
    [title |-> TitleText, fullPrice |-> [m |-> 50, e |-> 0],
     currentPrice |-> [m |-> 40, e |-> 0], isPreOrder |-> FALSE, inStock |-> TRUE,
     imageUrl |-> <<>>, url |-> url, format |-> <<>>, contributors |-> <<>>,
     id |-> <<"W">>]

\* what an implementation of ProductRepository.scrapeProduct may do with a URL
StubOutcomes(url) ==
    { Return(StubProduct(url)),
      Throw(InvalidUrlError(StrVal(url))),
      Throw(ProductNotFoundError(StrVal(url))),
      Throw(ProductScrapingError("Network error", StrVal(url), NoStatus)),
      Throw(PlainError("Unexpected failure")),
      Throw(NonErrorThrown) }

(***************************************************************************)
(* State                                                                   *)
(***************************************************************************)
VARIABLES
    mode,       \* "single": scrapePaniniProduct / execute; "batch": executeMany
    repoKind,   \* "service": PaniniScraperService; "stub": an injected repository
    urls,       \* the argument: the list of inputs (one input in single mode)
    pc,         \* where the call is
    iter,       \* the number of loop iterations started
    cur,        \* the locals of the item being processed
    item,       \* the settled promise of the item: Return(product) or Throw(error)
    successes,  \* executeMany's local
    failures,   \* executeMany's local
    result,     \* what the call returned or threw
    inflight,   \* the positions whose HTTP request has no response yet
    response,   \* the transport's answer to the last request
    log,        \* history: one record per item started
    calls,      \* history: the URLs handed to the repository and to HttpClient.get
    tasks,      \* the invocations of the function createPaniniScraper returned
    sent        \* history: the responses ApiController sent for the request

vars == <<mode, repoKind, urls, pc, iter, cur, item, successes, failures, result,
          inflight, response, log, calls, tasks, sent>>

NoError == [kind |-> "none", message |-> "", url |-> NullVal, statusCode |-> NoStatus]

NoItem == [ok |-> FALSE, err |-> NoError]

NoCur ==
    [pos |-> 0, input |-> NullVal, url |-> <<>>, doc |-> <<>>, fields |-> NoFields,
     ran |-> <<>>]

NoResponse == OtherThrown

NoResult == [state |-> "pending"]

\* the history record of an item: its position and input, the URL handed to
\* the repository, the stages passed, whether a request was issued, what
\* HttpClient.get threw, and how the item's promise settled
NewEntry(pos, input) ==
    [pos |-> pos, input |-> input, repoUrl |-> <<>>, called |-> FALSE, stages |-> <<>>,
     fetched |-> FALSE, fetchUrl |-> <<>>, httpError |-> NoError, outcome |-> NoItem,
     settled |-> FALSE]

Last(seq) == seq[Len(seq)]

SetLast(seq, e) == [seq EXCEPT ![Len(seq)] = e]

Init ==
    /\ mode \in {"single", "batch"}
    /\ repoKind \in {"service", "stub"}
    /\ urls \in IF mode = "single" THEN {<<u>> : u \in Inputs}
                ELSE UNION {[1..n -> BatchInputs] : n \in 0..MaxUrls}
    /\ pc = "start"
    /\ iter = 0
    /\ cur = NoCur
    /\ item = NoItem
    /\ successes = <<>>
    /\ failures = <<>>
    /\ result = NoResult
    /\ inflight = {}
    /\ response = NoResponse
    /\ log = <<>>
    /\ calls = <<>>
    /\ tasks = <<>>
    /\ sent = <<>>

(***************************************************************************)
(* Actions                                                                 *)
(***************************************************************************)
\* the item's promise settles: recorded in the history
Settled(entry, outcome) == [entry EXCEPT !.outcome = outcome, !.settled = TRUE]

Passed(entry, stage) == [entry EXCEPT !.stages = Append(@, stage)]

\* scrapePaniniProduct(url) / the function createPaniniScraper returns:
\* one call of useCase.execute
ScrapeOne ==
    /\ pc = "start"
    /\ mode = "single"
    /\ pc' = "execute"
    /\ iter' = 1
    /\ cur' = [NoCur EXCEPT !.pos = 1, !.input = urls[1]]
    /\ log' = <<NewEntry(1, urls[1])>>
    /\ UNCHANGED <<sent, tasks, mode, repoKind, urls, item, successes, failures, result, inflight,
                   response, calls>>

\* executeMany(urls): successes and failures start empty
ExecuteMany ==
    /\ pc = "start"
    /\ mode = "batch"
    /\ pc' = "loop"
    /\ successes' = <<>>
    /\ failures' = <<>>
    /\ UNCHANGED <<sent, tasks, mode, repoKind, urls, iter, cur, item, result, inflight, response, log, calls>>

\* for (const url of urls) { try { ... await this.execute(url)
LoopNext ==
    /\ mode = "batch"
    /\ pc = "loop" \/ (~AwaitsExecute /\ pc = "awaiting")
    /\ iter < Len(urls)
    /\ LET pos == IterationPosition(Len(urls), iter + 1)
       IN  /\ iter' = iter + 1
           /\ cur' = [NoCur EXCEPT !.pos = pos, !.input = urls[pos]]
           /\ log' = Append(log, NewEntry(pos, urls[pos]))
    /\ pc' = "execute"
    /\ item' = NoItem
    /\ UNCHANGED <<sent, tasks, mode, repoKind, urls, successes, failures, result, inflight, response, calls>>

\* execute(url): the input check, normalizeUrl(url.trim()), the call of the repository
Execute ==
    /\ pc = "execute"
    /\ IF UseCaseRejects(cur.input)
       THEN LET thrown == Throw(InvalidUrlError(OrEmpty(cur.input)))
            IN  /\ item' = thrown
                /\ log' = SetLast(log, Settled(Last(log), thrown))
                /\ pc' = "settled"
                /\ cur' = cur
                /\ calls' = calls
       ELSE LET normalizedUrl == normalizeUrl(Trim(cur.input.s))
            IN  /\ cur' = [cur EXCEPT !.url = normalizedUrl]
                /\ log' = SetLast(log, [Last(log) EXCEPT !.repoUrl = normalizedUrl,
                                                         !.called = TRUE])
                /\ pc' = IF repoKind = "service" THEN StageOrder[1] ELSE "stub"
                /\ item' = item
                /\ calls' = Append(calls, [to |-> "repository", url |-> normalizedUrl])
    /\ UNCHANGED <<sent, tasks, mode, repoKind, urls, iter, successes, failures, result, inflight,
                   response>>

\* an injected ProductRepository answers
StubScrape ==
    /\ pc = "stub"
    /\ \E outcome \in StubOutcomes(cur.url) :
        /\ item' = outcome
        /\ log' = SetLast(log, Settled(Last(log), outcome))
    /\ pc' = "settled"
    /\ UNCHANGED <<sent, tasks, mode, repoKind, urls, iter, cur, successes, failures, result, inflight,
                   response, calls>>

\* scrapeProduct: this.validateUrl(url), before the try block
ValidateUrl ==
    /\ pc = "validate"
    /\ IF ServiceRejects(StrVal(cur.url))
       THEN LET thrown == Throw(InvalidUrlError(StrVal(cur.url)))
            IN  /\ item' = thrown
                /\ log' = SetLast(log, Settled(Passed(Last(log), "validate"), thrown))
                /\ pc' = "settled"
       ELSE /\ item' = item
            /\ log' = SetLast(log, Passed(Last(log), "validate"))
            /\ pc' = StageAfter("validate")
    /\ UNCHANGED <<sent, tasks, mode, repoKind, urls, iter, cur, successes, failures, result, inflight,
                   response, calls>>

\* scrapeProduct: await this.httpClient.get(url) : the request leaves
Fetch ==
    /\ pc = "fetch"
    /\ inflight' = inflight \cup {cur.pos}
    /\ log' = SetLast(log, [Last(log) EXCEPT !.fetched = TRUE, !.fetchUrl = cur.url])
    /\ calls' = Append(calls, [to |-> "http", url |-> cur.url])
    /\ pc' = "awaiting"
    /\ UNCHANGED <<sent, tasks, mode, repoKind, urls, iter, cur, item, successes, failures, result,
                   response>>

\* the transport answers the request or fails
HttpRespond ==
    /\ pc = "awaiting"
    /\ cur.pos \in inflight
    /\ \E r \in (IF mode = "batch" THEN BatchTransportOutcomes ELSE TransportOutcomes) :
          response' = r
    /\ inflight' = inflight \ {cur.pos}
    /\ pc' = "responded"
    /\ UNCHANGED <<sent, tasks, mode, repoKind, urls, iter, cur, item, successes, failures, result, log, calls>>

\* HttpClient.get returns or throws; scrapeProduct takes response.data or
\* lands in its catch block
Fetched ==
    /\ pc = "responded"
    /\ LET got == HttpClientGet(response)
       IN  IF got.ok
           THEN /\ cur' = [cur EXCEPT !.doc = got.val]
                /\ log' = SetLast(log, Passed(Last(log), "fetch"))
                /\ pc' = StageAfter("fetch")
                /\ item' = item
           ELSE LET thrown == Throw(ServiceCatch(got.err, cur.url))
                IN  /\ item' = thrown
                    /\ log' = SetLast(log, Settled([Passed(Last(log), "fetch")
                                                      EXCEPT !.httpError = got.err], thrown))
                    /\ pc' = AfterFailure("fetch")
                    /\ cur' = cur
    /\ response' = NoResponse
    /\ UNCHANGED <<sent, tasks, mode, repoKind, urls, iter, successes, failures, result, inflight, calls>>

\* the try block from cheerio.load(html) to the last extractor, with the catch
\* block: the fields extracted, or the error the promise is rejected with
ParseOutcome(c, now) == TryCatch(Extract(c.doc, c.url, now), c.url)

\* scrapeProduct: cheerio.load(html) and the eight extractors
Parse ==
    /\ pc = "parse"
    /\ \E now \in ClockValues :
        LET Continue(outcome) ==
                /\ cur' = [cur EXCEPT !.fields = IF outcome.ok THEN outcome.val ELSE @,
                                      !.ran = ExtractorsRun(cur.doc)]
                /\ item' = IF outcome.ok THEN item ELSE outcome
                /\ log' = IF outcome.ok
                          THEN SetLast(log, Passed(Last(log), "parse"))
                          ELSE SetLast(log, Settled(Passed(Last(log), "parse"), outcome))
                /\ pc' = IF outcome.ok THEN StageAfter("parse") ELSE AfterFailure("parse")
        IN  Continue(ParseOutcome(cur, now))
    /\ UNCHANGED <<sent, tasks, mode, repoKind, urls, iter, successes, failures, result, inflight,
                   response, calls>>

\* the try block from new ProductEntity(...) to return product.toJSON(), with
\* the catch block
AssembleOutcome(c) == TryCatch(ProductEntity(c.fields), c.url)

\* scrapeProduct: new ProductEntity(...) and product.toJSON()
Assemble ==
    /\ pc = "assemble"
    /\ LET Continue(outcome) ==
                /\ item' = outcome
                /\ log' = SetLast(log, Settled(Passed(Last(log), "assemble"), outcome))
                /\ pc' = IF outcome.ok THEN StageAfter("assemble") ELSE "settled"
       IN  Continue(AssembleOutcome(cur))
    /\ UNCHANGED <<sent, tasks, mode, repoKind, urls, iter, cur, successes, failures, result, inflight,
                   response, calls>>

\* executeMany: successes.push after the await, or the catch block
Collect ==
    /\ pc = "settled"
    /\ mode = "batch"
    /\ IF item.ok
       THEN /\ successes' = Append(successes, SuccessEntry(cur.input, item.val))
            /\ UNCHANGED <<failures, result>>
            /\ pc' = "loop"
       ELSE IF BatchCatches(item.err)
       THEN /\ failures' = Append(failures, FailureEntry(cur.input, item.err))
            /\ UNCHANGED <<successes, result>>
            /\ pc' = "loop"
       ELSE /\ result' = [state |-> "threw", error |-> item.err]
            /\ UNCHANGED <<successes, failures>>
            /\ pc' = "done"
    /\ item' = NoItem
    /\ cur' = NoCur
    /\ UNCHANGED <<sent, tasks, mode, repoKind, urls, iter, inflight, response, log, calls>>

\* executeMany: return { successes, failures, totalProcessed, ... }
ReturnBatch ==
    /\ pc = "loop"
    /\ mode = "batch"
    /\ iter = Len(urls)
    /\ result' = [state |-> "returned", value |-> BatchScrapeResult(urls, successes, failures)]
    /\ pc' = "done"
    /\ UNCHANGED <<sent, tasks, mode, repoKind, urls, iter, cur, item, successes, failures, inflight,
                   response, log, calls>>

\* execute's promise is what the single-URL caller gets
ReturnOne ==
    /\ pc = "settled"
    /\ mode = "single"
    /\ result' = IF item.ok THEN [state |-> "returned", value |-> item.val]
                 ELSE [state |-> "threw", error |-> item.err]
    /\ pc' = "done"
    /\ UNCHANGED <<sent, tasks, mode, repoKind, urls, iter, cur, item, successes, failures, inflight,
                   response, log, calls>>

Next ==
    \/ ScrapeOne
    \/ ExecuteMany
    \/ LoopNext
    \/ Execute
    \/ StubScrape
    \/ ValidateUrl
    \/ Fetch
    \/ HttpRespond
    \/ Fetched
    \/ Parse
    \/ Assemble
    \/ Collect
    \/ ReturnBatch
    \/ ReturnOne

Spec == Init /\ [][Next]_vars

TypeOK ==
    /\ pc \in {"start", "loop", "execute", "stub", "validate", "fetch", "awaiting",
               "responded", "parse", "assemble", "settled", "done"}
    /\ iter \in 0..Len(urls)
    /\ Len(log) = iter

(***************************************************************************)
(* Properties                                                              *)
(***************************************************************************)
IsPrefix(a, b) == Len(a) <= Len(b) /\ SubSeq(b, 1, Len(a)) = a

Batch == mode = "batch"
Service == repoKind = "service"

ScrapingKinds == {"InvalidUrlError", "ProductNotFoundError", "ProductScrapingError"}

Failed(entry) == entry.settled /\ ~entry.outcome.ok

\* the calls a run over the inputs from position k on must make, in order:
\* for each input the use case accepts, the repository call with the
\* normalized URL and, when the service accepts that URL, the HTTP request
RECURSIVE ExpectedCalls(_)
ExpectedCalls(k) ==
    IF k > Len(urls) THEN <<>>
    ELSE LET normalized == normalizeUrl(Trim(urls[k].s))
         IN  (IF UseCaseRejects(urls[k]) THEN <<>>
              ELSE <<[to |-> "repository", url |-> normalized]>> \o
                   (IF Service /\ ~ServiceRejects(StrVal(normalized))
                    THEN <<[to |-> "http", url |-> normalized]>> ELSE <<>>))
             \o ExpectedCalls(k + 1)

\* C1: during executeMany the URLs handed to the repository and to the HTTP
\* client are the normalized inputs that pass validation, in input order: what
\* has been called so far is a prefix of that sequence, and all of it at the end
C1_CallsInInputOrder ==
    Batch => /\ IsPrefix(calls, ExpectedCalls(1))
             /\ pc = "done" => calls = ExpectedCalls(1)

C1_Witness ==
    /\ Batch /\ Service /\ pc = "done"
    /\ Len(urls) = 3
    /\ ServiceRejects(StrVal(normalizeUrl(Trim(urls[2].s))))
    /\ Len(calls) >= 4
    /\ calls[2].url # calls[Len(calls)].url

\* C2: during executeMany at most one request is outstanding, and an item is
\* started only when every item before it has settled
C2_OneAtATime ==
    Batch => /\ Cardinality(inflight) <= 1
             /\ \A k \in 1..(Len(log) - 1) : log[k].settled

C2_Witness ==
    /\ Batch /\ Len(log) >= 2 /\ inflight # {} /\ log[1].fetched

\* C3: executeMany never throws, whatever an item does: a settled item is
\* always collected, after a failure the loop can start the next position, and
\* the call ends by returning a result for which every position was processed
C3_BatchNeverThrows ==
    Batch => /\ result.state # "threw"
             /\ pc = "settled" => ENABLED Collect
             /\ (pc = "loop" /\ iter < Len(urls)) => ENABLED LoopNext
             /\ (pc = "loop" /\ iter = Len(urls)) => ENABLED ReturnBatch
             /\ pc = "done" => /\ result.state = "returned"
                               /\ Len(log) = Len(urls)
                               /\ \A k \in 1..Len(log) : log[k].settled

C3_Witness ==
    /\ Batch /\ pc = "done" /\ result.state = "returned"
    /\ Len(urls) = 3
    /\ Failed(log[1]) /\ log[1].outcome.err.kind = "NonError"
    /\ Failed(log[2]) /\ log[2].outcome.err.kind = "Error"
    /\ log[3].outcome.ok

\* C4: the counts of the result: totalProcessed is the number of inputs,
\* successCount and failureCount are the lengths of the two sequences and add
\* up to totalProcessed; for the empty list everything is empty and nothing
\* was called
C4_Counts ==
    (Batch /\ pc = "done") =>
        LET r == result.value
        IN  /\ r.totalProcessed = Len(urls)
            /\ r.successCount = Len(r.successes)
            /\ r.failureCount = Len(r.failures)
            /\ r.successCount + r.failureCount = r.totalProcessed
            /\ urls = <<>> =>
                  /\ r.totalProcessed = 0 /\ r.successCount = 0 /\ r.failureCount = 0
                  /\ r.successes = <<>> /\ r.failures = <<>>
                  /\ calls = <<>> /\ log = <<>>

C4_Witness ==
    /\ Batch /\ pc = "done"
    /\ result.value.successCount = 1
    /\ result.value.failureCount = 2

EntryAt(p) == CHOOSE e \in {log[k] : k \in 1..Len(log)} : e.pos = p

Positions == [k \in 1..Len(urls) |-> k]

\* C5: in the result every position is in exactly one of successes and
\* failures, each sequence is in input order, and each entry's url is the
\* input as the caller gave it
C5_EveryPositionOnce ==
    (Batch /\ pc = "done") =>
        LET good == SelectSeq(Positions, LAMBDA k : EntryAt(k).outcome.ok)
            bad == SelectSeq(Positions, LAMBDA k : ~EntryAt(k).outcome.ok)
            r == result.value
        IN  /\ \A k \in 1..Len(urls) : Cardinality({j \in 1..Len(log) : log[j].pos = k}) = 1
            /\ Len(r.successes) = Len(good)
            /\ Len(r.failures) = Len(bad)
            /\ \A j \in 1..Len(good) :
                  /\ r.successes[j].url = urls[good[j]]
                  /\ r.successes[j].product = EntryAt(good[j]).outcome.val
            /\ \A j \in 1..Len(bad) : r.failures[j].url = urls[bad[j]]

C5_Witness ==
    /\ Batch /\ pc = "done"
    /\ Len(urls) = 3 /\ urls[1] = urls[3] /\ urls[1] = StrVal(UrlB)
    /\ Len(result.value.successes) = 2
    /\ result.value.successes[2].product.url # UrlB

FailedEntries == SelectSeq(log, Failed)

\* C6: a failure keeps an InvalidUrlError, ProductNotFoundError or
\* ProductScrapingError as it was thrown; any other thrown value is wrapped in
\* a ProductScrapingError with the item's URL and the Error's message, or
\* 'Unknown error' when it is not an Error; message repeats the error's message
C6_FailureKinds ==
    Batch => \A j \in 1..Len(failures) :
        LET thrown == FailedEntries[j].outcome.err
            f == failures[j]
        IN  /\ f.message = f.error.message
            /\ thrown.kind \in ScrapingKinds => f.error = thrown
            /\ thrown.kind \notin ScrapingKinds =>
                  /\ f.error.kind = "ProductScrapingError"
                  /\ f.error.url = FailedEntries[j].input
                  /\ f.error.message = IF thrown.kind = "Error" THEN thrown.message
                                       ELSE "Unknown error"

C6_Witness ==
    /\ Batch /\ Len(failures) = 3
    /\ failures[1].error.kind = "InvalidUrlError"
    /\ failures[2].message = "Unknown error"
    /\ failures[3].message = "Unexpected failure"

\* C7: an extraction that ends in InvalidUrlError has issued no request, and a
\* request is issued only for a URL that both checks accept
C7_InvalidUrlNoFetch ==
    Service => \A k \in 1..Len(log) :
        /\ (Failed(log[k]) /\ log[k].outcome.err.kind = "InvalidUrlError") => ~log[k].fetched
        /\ log[k].fetched => /\ ~UseCaseRejects(log[k].input)
                             /\ MatchesPaniniPrefix(log[k].fetchUrl)

C7_Witness ==
    /\ Service /\ Len(log) >= 2
    /\ log[1].fetched
    /\ Failed(log[2]) /\ log[2].outcome.err.kind = "InvalidUrlError"
    /\ log[2].called

\* C8 (as claimed): when the page was fetched and the title or the price is
\* missing, the extraction fails with a ProductNotFoundError
C8_NotFoundKind ==
    (/\ Service
     /\ pc = "settled"
     /\ Last(log).stages = <<"validate", "fetch", "parse">>
     /\ ~extractTitle(cur.doc).ok \/ ~extractPrices(cur.doc).ok)
    => (~item.ok /\ item.err.kind = "ProductNotFoundError")

AllStages == <<"validate", "fetch", "parse", "assemble">>

\* C9: a run of the pipeline passes validate, fetch, parse, assemble in that
\* order; it ends with a product only after all four, and otherwise with an
\* InvalidUrlError, a ProductNotFoundError or a ProductScrapingError
C9_StagesAndOutcome ==
    Service => \A k \in 1..Len(log) :
        /\ IsPrefix(log[k].stages, AllStages)
        /\ log[k].settled =>
              IF log[k].outcome.ok THEN log[k].stages = AllStages
              ELSE log[k].outcome.err.kind \in ScrapingKinds
        /\ (mode = "single" /\ pc = "done") =>
              /\ log[k].settled
              /\ result.state = "threw" => result.error = log[k].outcome.err
              /\ result.state = "returned" => result.value = log[k].outcome.val

C9_Witness ==
    /\ Service /\ mode = "single" /\ pc = "done"
    /\ result.state = "threw"
    /\ log[1].stages = AllStages
    /\ result.error.kind = "ProductScrapingError"

\* C10: what HttpClient.get throws surfaces as a ProductScrapingError with the
\* message 'Failed to scrape product: ' and the original message ('Unknown
\* error occurred' for a thrown value that is not an Error) and the URL being
\* scraped; in a batch the failure carries that error
C10_TransportFailureWrapped ==
    \A j \in 1..Len(FailedEntries) :
        LET e == FailedEntries[j]
        IN  e.httpError # NoError =>
              /\ e.outcome.err.kind = "ProductScrapingError"
              /\ e.outcome.err.message =
                    "Failed to scrape product: " \o
                    (IF e.httpError.kind = "Error" THEN e.httpError.message
                     ELSE "Unknown error occurred")
              /\ e.outcome.err.url = StrVal(e.fetchUrl)
              /\ (Batch /\ j <= Len(failures)) => failures[j].error = e.outcome.err
              /\ (mode = "single" /\ pc = "done") => result.error = e.outcome.err

C10_Witness ==
    /\ Batch /\ Len(failures) = 2
    /\ failures[1].message =
          "Failed to scrape product: HTTP request failed: timeout of 15000ms exceeded (unknown)"
    /\ failures[2].message = "Failed to scrape product: Unknown error occurred"

\* the invariants of a product record
ValidRecord(p) ==
    /\ Trim(p.title) # <<>>
    /\ p.fullPrice.m >= 0
    /\ p.currentPrice.m >= 0
    /\ ~Gt(p.currentPrice, p.fullPrice)
    /\ isValidUrl(p.url)
    /\ Trim(p.id) # <<>>

\* C11: a record the service returns has a non-blank title and id, prices that
\* are not negative with currentPrice <= fullPrice, and a well-formed absolute
\* url; when the extracted fields break one of these the constructor throws
\* and the extraction ends in a ProductScrapingError, not in a record
C11_RecordInvariants ==
    Service =>
        /\ \A k \in 1..Len(log) :
              (log[k].settled /\ log[k].outcome.ok) => ValidRecord(log[k].outcome.val)
        /\ (result.state = "returned" /\ mode = "single") => ValidRecord(result.value)
        /\ \A j \in 1..Len(successes) : ValidRecord(successes[j].product)
        /\ (pc = "settled" /\ Last(log).stages = AllStages) =>
              IF ValidRecord(cur.fields) THEN item = Return(cur.fields)
              ELSE /\ ~item.ok
                   /\ item.err.kind = "ProductScrapingError"
                   /\ IsPrefix(Chars("Failed to scrape product: "), Chars(item.err.message))

C11_Witness ==
    /\ Service /\ pc = "settled"
    /\ Last(log).stages = AllStages
    /\ Gt(cur.fields.currentPrice, cur.fields.fullPrice)
    /\ item.err.message =
          "Failed to scrape product: Current price cannot be higher than full price"

\* s begins with 'http://' or 'https://', an optional 'www.', and 'panini.com.br'
BeginsWithSite(s) ==
    \E p \in {"http://panini.com.br", "https://panini.com.br",
              "http://www.panini.com.br", "https://www.panini.com.br"} :
        StartsWith(s, Chars(p))

RejectedAsInvalid(entry) == Failed(entry) /\ entry.outcome.err.kind = "InvalidUrlError"

\* C12 (as claimed): an input that is empty, is not a string or does not begin
\* with the site prefix is rejected with InvalidUrlError, and only inputs that
\* begin with the prefix reach the fetch stage
C12_InputBeginsWithSite ==
    Service => \A k \in 1..Len(log) :
        /\ (log[k].settled /\ (~IsString(log[k].input) \/ ~BeginsWithSite(log[k].input.s)))
              => RejectedAsInvalid(log[k])
        /\ log[k].fetched => (IsString(log[k].input) /\ BeginsWithSite(log[k].input.s))

\* C12 (amended): an input that is empty or not a string is rejected with
\* InvalidUrlError; the prefix is required of the URL validateUrl is given,
\* which is the input after execute has trimmed it and added the scheme: a URL
\* without the prefix is rejected at the validate stage, and only a URL with
\* the prefix reaches the fetch stage
C12_NormalizedBeginsWithSite ==
    Service => \A k \in 1..Len(log) :
        /\ (log[k].settled /\ (~IsString(log[k].input) \/ log[k].input.s = <<>>))
              => (RejectedAsInvalid(log[k]) /\ ~log[k].called)
        /\ (log[k].stages # <<>> /\ ~BeginsWithSite(log[k].repoUrl))
              => /\ RejectedAsInvalid(log[k])
                 /\ log[k].stages = <<"validate">>
                 /\ log[k].outcome.err.url = StrVal(log[k].repoUrl)
        /\ (Len(log[k].stages) = 1 /\ BeginsWithSite(log[k].repoUrl)) => ~log[k].settled
        /\ log[k].fetched => BeginsWithSite(log[k].fetchUrl)

C12_Witness ==
    /\ Service /\ Batch /\ Len(log) = 3
    /\ log[1].input = StrVal(UrlB) /\ ~BeginsWithSite(log[1].input.s) /\ log[1].fetched
    /\ log[2].input = StrVal(UrlForeign) /\ RejectedAsInvalid(log[2])
    /\ log[2].stages = <<"validate">>
    /\ log[3].input = NullVal /\ RejectedAsInvalid(log[3])

\* the input is not a string, or is a string of nothing but whitespace
Blank(v) == ~IsString(v) \/ \A k \in 1..Len(v.s) : IsSpace(v.s[k])

\* the URL the repository is to be given for a string that is not blank: the
\* part between the first and the last non-space character, without its last
\* character when that is a slash, after 'https://' when it has no scheme
NormalizedForm(s) ==
    LET inked == {k \in 1..Len(s) : ~IsSpace(s[k])}
        first == CHOOSE k \in inked : \A j \in inked : k <= j
        last == CHOOSE k \in inked : \A j \in inked : k >= j
        cut == SubSeq(s, first, IF s[last] = "/" THEN last - 1 ELSE last)
    IN  IF \E p \in {"http://", "https://"} : StartsWith(cut, Chars(p))
        THEN cut ELSE Chars("https://") \o cut

HiddenIndicators(doc) ==
    {i \in 1..Len(doc) : /\ "infobase-label-presale" \in doc[i].cls
                         /\ Attr(doc[i], "display") = Chars("none")}

\* the page without the text of its hidden pre-sale indicators
WithoutHiddenText(doc) ==
    [i \in 1..Len(doc) |->
        IF i \in HiddenIndicators(doc) THEN [doc[i] EXCEPT !.text = <<>>] ELSE doc[i]]

\* C14 (as claimed): a hidden pre-sale indicator never makes isPreOrder true,
\* wherever it is in the document: a page with one is a pre-order only if it
\* is one without the indicator's text
C14_HiddenIndicatorIgnored ==
    (/\ Service
     /\ pc = "assemble"
     /\ HiddenIndicators(cur.doc) # {})
    => (cur.fields.isPreOrder => extractPreOrderStatus(WithoutHiddenText(cur.doc)))

\* the case of the unit test: the hidden indicator is a child of body
C14_HiddenAtTopLevel ==
    /\ Service /\ pc = "assemble"
    /\ cur.doc = PageHiddenPresale
    /\ ~cur.fields.isPreOrder

\* the placeholder predicate: one of the marker words occurs in the URL,
\* whatever the case of its letters
LooksLikePlaceholder(url) ==
    \E word \in {"placeholder", "default/panini-placeholder", "no-image", "loading", "spinner"} :
        Includes(ToLower(url), Chars(word))

\* C15 (as claimed): the imageUrl the extractors produce is never a
\* placeholder, whichever stage it comes from
C15_NeverPlaceholder ==
    (Service /\ pc = "assemble") => ~LooksLikePlaceholder(cur.fields.imageUrl)

\* the img stages pass over a placeholder for the image after it
C15_PlaceholderImgSkipped ==
    /\ Service /\ pc = "assemble"
    /\ cur.doc = PageImgPlaceholder
    /\ cur.fields.imageUrl = Chars("https://panini.com.br/m/x.jpg")

\* an absolute URL: it names its scheme
IsAbsoluteUrl(url) == \E scheme \in {"http://", "https://"} : StartsWith(url, Chars(scheme))

\* C16 (as claimed): the imageUrl of a record the service returns is empty or
\* an absolute URL, never a relative path
C16_ImageAbsoluteOrEmpty ==
    Service => \A k \in 1..Len(log) :
        (log[k].settled /\ log[k].outcome.ok) =>
            \/ log[k].outcome.val.imageUrl = <<>>
            \/ IsAbsoluteUrl(log[k].outcome.val.imageUrl)

\* a source that begins with a slash is resolved against the site
C16_SlashSourceResolved ==
    /\ Service /\ mode = "single" /\ pc = "done" /\ result.state = "returned"
    /\ cur.doc = PageDiscount
    /\ result.value.imageUrl = Chars("https://panini.com.br/m/x.jpg")

\* the comma-separated tokens of a text, trimmed, by the position after
\* which each starts: position 0 and every comma start a token that runs to
\* the next comma or to the end
TokenStarts(text) == {0} \cup {k \in 1..Len(text) : text[k] = ","}

TokenFrom(text, a) ==
    LET ends == {k \in (a + 1)..Len(text) : text[k] = ","} \cup {Len(text) + 1}
    IN  Trim(SubSeq(text, a + 1, Min(ends) - 1))

NameStarts(text) ==
    {a \in TokenStarts(text) : /\ TokenFrom(text, a) # <<>>
                               /\ Len(TokenFrom(text, a)) < 100}

\* names holds each name of the text once, in the order in which the names
\* first occur in it
FirstSeenNames(names, text) ==
    /\ {names[k] : k \in 1..Len(names)} = {TokenFrom(text, a) : a \in NameStarts(text)}
    /\ \A i, j \in 1..Len(names) :
          i < j => /\ names[i] # names[j]
                   /\ \E a \in NameStarts(text) :
                         /\ TokenFrom(text, a) = names[i]
                         /\ \A b \in NameStarts(text) : TokenFrom(text, b) = names[j] => a < b

\* C17: the contributors are the names of the 'Autores' cell, each once, in
\* first-seen order, none empty and none of 100 characters or more; the first
\* row labelled autor / roteiro / arte that has text is used only when the
\* cell gives no name; without a source the result is empty
C17_ContributorsFirstSeen ==
    (Service /\ pc = "assemble") =>
        LET names == cur.fields.contributors
            cell == Trim(TextOfAll(cur.doc, Select(cur.doc, ByAttr("td", "data-th", Chars("Autores"))), 1))
            row == FirstLabelledRow(cur.doc, {Chars("autor"), Chars("roteiro"), Chars("arte")}, 1)
        IN  /\ \A k \in 1..Len(names) : names[k] # <<>> /\ Len(names[k]) < 100
            /\ IF NameStarts(cell) # {} THEN FirstSeenNames(names, cell)
               ELSE FirstSeenNames(names, row)
            /\ (cell = <<>> /\ row = <<>>) => names = <<>>

C17_Witness ==
    /\ Service /\ pc = "assemble"
    /\ cur.doc = PageAuthors
    /\ cur.fields.contributors = <<Chars("A"), Chars("B"), [k \in 1..99 |-> "y"]>>

\* the numeric substrings of a text: its maximal runs of digits, '.' and ','
\* that hold a digit, as pairs of first and last position
IsPriceChar(c) == c \in Digits \cup {".", ","}

NumericRuns(text) ==
    {r \in (1..Len(text)) \X (1..Len(text)) :
        /\ r[1] <= r[2]
        /\ \A k \in r[1]..r[2] : IsPriceChar(text[k])
        /\ \E k \in r[1]..r[2] : text[k] \in Digits
        /\ r[1] = 1 \/ ~IsPriceChar(text[r[1] - 1])
        /\ r[2] = Len(text) \/ ~IsPriceChar(text[r[2] + 1])}

FirstNumericRun(text) ==
    LET r == CHOOSE r \in NumericRuns(text) : \A q \in NumericRuns(text) : r[1] <= q[1]
    IN  SubSeq(text, r[1], r[2])

\* a run in Brazilian format: digits with '.' between them and at most one
\* ',' followed by the decimals
BrazilianFormat(run) ==
    /\ Head(run) \in Digits /\ run[Len(run)] \in Digits
    /\ \A k \in 1..(Len(run) - 1) : run[k] \in Digits \/ run[k + 1] \in Digits
    /\ Cardinality({k \in 1..Len(run) : run[k] = ","}) <= 1
    /\ \A k \in 1..Len(run) : run[k] = "," => \A j \in k..Len(run) : run[j] # "."

\* the number a run in Brazilian format denotes
BrazilianValue(run) ==
    LET commas == {k \in 1..Len(run) : run[k] = ","}
        decimals == IF commas = {} THEN 0 ELSE Len(run) - Min(commas)
    IN  Normalise([m |-> DigitsToNat(SelectSeq(run, LAMBDA c : c \in Digits)), e |-> decimals])

\* the price element's text and the price extractPrices took from it, 0 when
\* it threw, on a page whose only price element is div.price
PriceElementText == cur.doc[2].text

PriceFound ==
    IF pc = "assemble" THEN cur.fields.currentPrice ELSE Zero

PriceParsed ==
    /\ Service
    /\ pc = "assemble" \/ (pc = "settled" /\ Last(log).stages = <<"validate", "fetch", "parse">>)
    /\ \E text \in PriceTexts : cur.doc = PagePriced(text)

\* C18 (as claimed): the price of a text is the number its first numeric
\* substring denotes in Brazilian format; it is never negative, and it is 0
\* only when the text has no numeric substring (or that number is 0)
C18_PriceOfFirstNumber ==
    PriceParsed =>
        /\ PriceFound.m >= 0
        /\ (NumericRuns(PriceElementText) # {}
            /\ BrazilianFormat(FirstNumericRun(PriceElementText)))
              => PriceFound = BrazilianValue(FirstNumericRun(PriceElementText))
        /\ PriceFound = Zero =>
              \/ NumericRuns(PriceElementText) = {}
              \/ \A k \in 1..Len(FirstNumericRun(PriceElementText)) :
                    FirstNumericRun(PriceElementText)[k] \in {"0", ".", ","}

\* the example of the claim: "R$ 1.234,56" gives 1234.56
C18_ThousandsAndDecimals ==
    /\ PriceParsed
    /\ PriceElementText = Chars("R$ 1.234,56")
    /\ PriceFound = [m |-> 123456, e |-> 2]

\* a price element whose text has punctuation before the amount: the amount
\* is not found and the extraction fails
C18_PunctuationBeforePrice ==
    /\ PriceParsed
    /\ PriceElementText = Chars("Aprox. R$ 10,00")
    /\ pc = "settled"
    /\ Failed(Last(log))
    /\ PriceFound = Zero

(***************************************************************************)
(* createPaniniScraper(config): one PaniniScraperService and one use case  *)
(* are constructed, and the returned function calls useCase.execute(url).  *)
(* The caller starts several invocations before any has settled            *)
(* (Promise.all).  An invocation runs without interruption up to its       *)
(* await of httpClient.get and again from the arrival of the response to   *)
(* its return or throw; the responses arrive in any order.                 *)
(***************************************************************************)
MaxCalls == 2

SharedInputs == {StrVal(UrlA), StrVal(UrlB), StrVal(UrlForeign), NullVal}

SharedTransportOutcomes ==
    { AxiosOk(PageOk), AxiosOk(PageDiscount), AxiosOk(PageNoPrice),
      AxiosError("timeout of 15000ms exceeded", {}) }

NewTask(input) ==
    [input |-> input, pc |-> "start", url |-> <<>>, answer |-> NoResponse,
     now |-> <<>>, outcome |-> NoItem]

\* execute and scrapeProduct up to the await: the promise is rejected at
\* once, or the request for the normalized URL leaves
BeforeAwait(input) ==
    IF UseCaseRejects(input)
    THEN [settled |-> TRUE, url |-> <<>>, outcome |-> Throw(InvalidUrlError(OrEmpty(input)))]
    ELSE LET Validate(normalizedUrl) ==
                 IF ServiceRejects(StrVal(normalizedUrl))
                 THEN [settled |-> TRUE, url |-> normalizedUrl,
                       outcome |-> Throw(InvalidUrlError(StrVal(normalizedUrl)))]
                 ELSE [settled |-> FALSE, url |-> normalizedUrl, outcome |-> NoItem]
         IN  Validate(normalizeUrl(Trim(input.s)))

\* scrapeProduct from the continuation of the await to its return or throw
AfterParse(url, parsed) ==
    IF parsed.ok THEN AssembleOutcome([NoCur EXCEPT !.url = url, !.fields = parsed.val])
    ELSE parsed

AfterAwait(url, got, now) ==
    IF got.ok THEN AfterParse(url, ParseOutcome([NoCur EXCEPT !.url = url, !.doc = got.val], now))
    ELSE Throw(ServiceCatch(got.err, url))

\* the outcome of an invocation that runs alone
Alone(input, answer, now) ==
    LET Continue(before) ==
            IF before.settled THEN before.outcome
            ELSE AfterAwait(before.url, HttpClientGet(answer), now)
    IN  Continue(BeforeAwait(input))

\* faulty variant: the answer is kept on the shared service, where the
\* answer to a later request replaces it
DeliveredLast(task, last) == last

\* const response = await this.httpClient.get(url): the continuation gets
\* the answer to its own request
Delivered(task, last) == task.answer

SharedInit ==
    /\ tasks \in UNION {[1..n -> {NewTask(input) : input \in SharedInputs}] : n \in 1..MaxCalls}
    /\ mode = "single"
    /\ repoKind = "service"
    /\ urls = <<>>
    /\ pc = "start"
    /\ iter = 0
    /\ cur = NoCur
    /\ item = NoItem
    /\ successes = <<>>
    /\ failures = <<>>
    /\ result = NoResult
    /\ inflight = {}
    /\ response = NoResponse
    /\ log = <<>>
    /\ calls = <<>>
    /\ sent = <<>>

\* scraper(url): useCase.execute(url) up to the await of httpClient.get
Invoke(i) ==
    /\ tasks[i].pc = "start"
    /\ LET Start(before) ==
               /\ tasks' = [tasks EXCEPT ![i].url = before.url,
                                         ![i].outcome = before.outcome,
                                         ![i].pc = IF before.settled THEN "settled"
                                                   ELSE "awaiting"]
               /\ inflight' = IF before.settled THEN inflight ELSE inflight \cup {i}
               /\ calls' = IF before.settled THEN calls
                           ELSE Append(calls, [to |-> "http", url |-> before.url])
       IN  Start(BeforeAwait(tasks[i].input))
    /\ UNCHANGED <<sent, mode, repoKind, urls, pc, iter, cur, item, successes, failures, result,
                   response, log>>

\* the transport answers the request of invocation i or fails
Respond(i) ==
    /\ tasks[i].pc = "awaiting"
    /\ i \in inflight
    /\ \E r \in SharedTransportOutcomes :
        /\ response' = r
        /\ tasks' = [tasks EXCEPT ![i].answer = r, ![i].pc = "responded"]
    /\ inflight' = inflight \ {i}
    /\ UNCHANGED <<sent, mode, repoKind, urls, pc, iter, cur, item, successes, failures, result,
                   log, calls>>

\* the continuation of the await runs to return product.toJSON() or to the
\* throw of the catch block
Resume(i) ==
    /\ tasks[i].pc = "responded"
    /\ \E now \in ClockValues :
        tasks' = [tasks EXCEPT
                    ![i].now = now,
                    ![i].outcome = AfterAwait(tasks[i].url,
                                              HttpClientGet(Delivered(tasks[i], response)),
                                              now),
                    ![i].pc = "settled"]
    /\ UNCHANGED <<sent, mode, repoKind, urls, pc, iter, cur, item, successes, failures, result,
                   inflight, response, log, calls>>

SharedNext ==
    \/ \E i \in DOMAIN tasks : Invoke(i)
    \/ \E i \in DOMAIN tasks : Respond(i)
    \/ \E i \in DOMAIN tasks : Resume(i)

SharedSpec == SharedInit /\ [][SharedNext]_vars

HttpCalls == SelectSeq(calls, LAMBDA c : c.to = "http")

FetchedEntries == SelectSeq(log, LAMBDA e : e.fetched)

\* a step leaves the settled items and the failure entries as they are
SettledIsFinal ==
    /\ \A k \in 1..Len(log) : log[k].settled => (Len(log') >= k /\ log'[k] = log[k])
    /\ Len(failures') >= Len(failures)
    /\ \A k \in 1..Len(failures) : failures'[k] = failures[k]

\* C20: in a run of executeMany every request is the one request of an item
\* (the requests and the items fetched correspond one to one, and no
\* position has two items), and once an item has settled, in particular
\* with a failed fetch or parse, nothing is done for it again: its history
\* and its failure entry stay as they are
C20_NoRetries ==
    /\ [](Batch =>
            /\ Len(HttpCalls) = Len(FetchedEntries)
            /\ \A k \in 1..Len(FetchedEntries) : HttpCalls[k].url = FetchedEntries[k].fetchUrl
            /\ \A j, k \in 1..Len(log) : log[j].pos = log[k].pos => j = k)
    /\ [][Batch => SettledIsFinal]_vars

\* a run that went on after a failed fetch and a failed parse: one request
\* each, both in failures, and the third item fetched and parsed
C20_Witness ==
    /\ Batch /\ Service
    /\ pc = "done"
    /\ Len(log) = 3
    /\ log[1].stages = <<"validate", "fetch">> /\ Failed(log[1])
    /\ log[2].stages = <<"validate", "fetch", "parse">> /\ Failed(log[2])
    /\ log[3].outcome.ok
    /\ Len(failures) = 2
    /\ Len(HttpCalls) = 3

(***************************************************************************)
(* ApiController: the POST route reads the URL from the request body, the  *)
(* GET route from the query string; both call useCase.execute and answer   *)
(* with res.status(...).json(...).  A response is the status and the       *)
(* fields of the JSON body, NullVal or NoStatus standing for an absent one.*)
(***************************************************************************)
NoData == [absent |-> TRUE]

ApiResponse(status, code, message, url, statusCode, data) ==
    [status |-> status, code |-> code, message |-> message, url |-> url,
     statusCode |-> statusCode, data |-> data]

MissingUrl(message) == ApiResponse(400, "MISSING_URL", message, NullVal, NoStatus, NoData)

Success(product) == ApiResponse(200, "", "", NullVal, NoStatus, product)

\* faulty variant: the base class is tested before its subclasses
handleErrorBaseFirst(error) ==
    IF InstanceOfProductScrapingError(error)
    THEN ApiResponse(500, "SCRAPING_ERROR", error.message, error.url, error.statusCode, NoData)
    ELSE ApiResponse(500, "INTERNAL_ERROR",
                     IF InstanceOfError(error) THEN error.message ELSE "Unknown error occurred",
                     NullVal, NoStatus, NoData)

handleError(error) ==
    IF error.kind = "InvalidUrlError"
    THEN ApiResponse(400, "INVALID_URL", error.message, error.url, NoStatus, NoData)
    ELSE IF error.kind = "ProductNotFoundError"
    THEN ApiResponse(404, "PRODUCT_NOT_FOUND", error.message, error.url, NoStatus, NoData)
    ELSE IF InstanceOfProductScrapingError(error)
    THEN ApiResponse(500, "SCRAPING_ERROR", error.message, error.url, error.statusCode, NoData)
    ELSE ApiResponse(500, "INTERNAL_ERROR",
                     IF InstanceOfError(error) THEN error.message ELSE "Unknown error occurred",
                     NullVal, NoStatus, NoData)

\* req.body.url / req.query.url: a string, absent, or a value of another type
ApiUrls ==
    {StrVal(UrlA), StrVal(UrlB), StrVal(UrlForeign), StrVal(<<>>), NullVal, NumberVal}

ApiInit ==
    /\ mode \in {"body", "query"}
    /\ repoKind \in {"service", "stub"}
    /\ urls \in {<<u>> : u \in ApiUrls}
    /\ pc = "start"
    /\ iter = 0
    /\ cur = NoCur
    /\ item = NoItem
    /\ successes = <<>>
    /\ failures = <<>>
    /\ result = NoResult
    /\ inflight = {}
    /\ response = NoResponse
    /\ log = <<>>
    /\ calls = <<>>
    /\ tasks = <<>>
    /\ sent = <<>>

\* both routes after the check of the URL: the 400 response and return, or
\* await this.scrapeProductUseCase.execute(url)
Route(missing, message) ==
    /\ IF missing
       THEN /\ sent' = Append(sent, MissingUrl(message))
            /\ pc' = "done"
            /\ UNCHANGED <<iter, cur, log>>
       ELSE /\ pc' = "execute"
            /\ iter' = 1
            /\ cur' = [NoCur EXCEPT !.pos = 1, !.input = urls[1]]
            /\ log' = <<NewEntry(1, urls[1])>>
            /\ sent' = sent
    /\ UNCHANGED <<tasks, mode, repoKind, urls, item, successes, failures, result, inflight,
                   response, calls>>

\* scrapeProduct(req, res): if (!url)
ScrapeProductRoute ==
    /\ pc = "start"
    /\ mode = "body"
    /\ Route(Falsy(urls[1]), "URL is required")

\* scrapeProductByQuery(req, res): if (!url || typeof url !== 'string')
ScrapeProductByQuery ==
    /\ pc = "start"
    /\ mode = "query"
    /\ Route(Falsy(urls[1]) \/ ~IsString(urls[1]), "URL query parameter is required")

\* the await settles: res.status(200).json(...) or this.handleError(error, res)
Reply ==
    /\ pc = "settled"
    /\ mode \in {"body", "query"}
    /\ sent' = Append(sent, IF item.ok THEN Success(item.val) ELSE handleError(item.err))
    /\ pc' = "done"
    /\ UNCHANGED <<tasks, mode, repoKind, urls, iter, cur, item, successes, failures, result,
                   inflight, response, log, calls>>

ApiNext ==
    \/ ScrapeProductRoute
    \/ ScrapeProductByQuery
    \/ Execute
    \/ StubScrape
    \/ ValidateUrl
    \/ Fetch
    \/ HttpRespond
    \/ Fetched
    \/ Parse
    \/ Assemble
    \/ Reply

ApiSpec == ApiInit /\ [][ApiNext]_vars

\* the URL of the request is absent, or is not a string in the query
UrlMissing ==
    \/ urls[1] \in {NullVal, StrVal(<<>>)}
    \/ mode = "query" /\ urls[1].type # "string"

\* the status and code the request must be answered with once it is handled
ExpectedReply ==
    IF UrlMissing THEN <<400, "MISSING_URL">>
    ELSE IF log[1].outcome.ok THEN <<200, "">>
    ELSE IF log[1].outcome.err.kind = "InvalidUrlError" THEN <<400, "INVALID_URL">>
    ELSE IF log[1].outcome.err.kind = "ProductNotFoundError" THEN <<404, "PRODUCT_NOT_FOUND">>
    ELSE IF log[1].outcome.err.kind = "ProductScrapingError" THEN <<500, "SCRAPING_ERROR">>
    ELSE <<500, "INTERNAL_ERROR">>

\* C21: a request gets exactly one response, sent when it has been handled:
\* 400 MISSING_URL with the use case not called when the URL is missing, 200
\* with the product on success, and for a rejection 400 INVALID_URL, 404
\* PRODUCT_NOT_FOUND, 500 SCRAPING_ERROR or 500 INTERNAL_ERROR by the kind
\* of the error
C21_OneResponseByKind ==
    /\ Len(sent) = (IF pc = "done" THEN 1 ELSE 0)
    /\ UrlMissing => log = <<>>
    /\ pc = "done" =>
          /\ <<sent[1].status, sent[1].code>> = ExpectedReply
          /\ (~UrlMissing /\ log[1].outcome.ok) => sent[1].data = log[1].outcome.val

\* a not-found rejection of the use case answered with 404 PRODUCT_NOT_FOUND
C21_Witness ==
    /\ pc = "done"
    /\ mode = "query"
    /\ log # <<>>
    /\ ~log[1].outcome.ok
    /\ log[1].outcome.err.kind = "ProductNotFoundError"
    /\ sent = <<ApiResponse(404, "PRODUCT_NOT_FOUND",
                            "Product not found or page structure has changed",
                            StrVal(Chars("https://panini.com.br/a")), NoStatus, NoData)>>

\* the value at a price location: the price of the text of the first element
\* the selector matches, 0 when it matches none
ValueAt(doc, selector) == extractPriceFromText(FirstText(doc, selector))

\* the first non-zero value among the locations in list order, 0 without one
FirstNonZero(doc, selectors) ==
    IF \E k \in 1..Len(selectors) : ValueAt(doc, selectors[k]) # Zero
    THEN ValueAt(doc, selectors[Min({k \in 1..Len(selectors) :
                                        ValueAt(doc, selectors[k]) # Zero})])
    ELSE Zero

ExpectedCurrentPrice(doc) ==
    IF FirstNonZero(doc, currentPriceSelectors) # Zero
    THEN FirstNonZero(doc, currentPriceSelectors)
    ELSE FirstNonZero(doc, generalSelectors)

ExpectedFullPrice(doc) ==
    IF FirstNonZero(doc, fullPriceSelectors) # Zero
    THEN FirstNonZero(doc, fullPriceSelectors)
    ELSE ExpectedCurrentPrice(doc)

\* a page was parsed: the extractors ran on cur.doc
PageParsed ==
    /\ Service
    /\ pc = "assemble" \/ (pc = "settled" /\ Last(log).stages = <<"validate", "fetch", "parse">>)

\* C22: on every parsed page, currentPrice is the first non-zero value of
\* the current-price locations or else of the generic ones, fullPrice the
\* first non-zero value of the original-price locations or else
\* currentPrice; with no current price the extractor fails with a
\* ProductNotFoundError, an original price being found or not, and the
\* extraction is rejected
C22_PricesByLocationOrder ==
    PageParsed =>
        /\ extractPrices(cur.doc).ok <=> ExpectedCurrentPrice(cur.doc) # Zero
        /\ ~extractPrices(cur.doc).ok =>
              /\ extractPrices(cur.doc).err.kind = "ProductNotFoundError"
              /\ Failed(Last(log))
        /\ pc = "assemble" =>
              /\ cur.fields.currentPrice = ExpectedCurrentPrice(cur.doc)
              /\ cur.fields.fullPrice = ExpectedFullPrice(cur.doc)

\* the original price comes from the second original-price location, the
\* first holding 0, and the current price from the generic location that is
\* first in the list though second in the document
C22_Witness ==
    /\ PageParsed
    /\ pc = "assemble"
    /\ cur.doc = PagePriceLocations(<<Chars("R$ 0,00")>>, <<Chars("R$ 60,00")>>, <<<<>>>>,
                                    <<>>, <<Chars("R$ 20,00")>>, <<Chars("R$ 10,00")>>)
    /\ cur.fields.fullPrice = [m |-> 60, e |-> 0]
    /\ cur.fields.currentPrice = [m |-> 20, e |-> 0]

\* the element's own text and that of its descendants contains one of the phrases
ContainsPhrase(doc, i, phrases) ==
    \E phrase \in phrases : Includes(ToLower(ElementText(doc, i, i)), phrase)

\* (a) a dedicated pre-sale element that is visible and contains 'pré-venda'
VisiblePresaleElement(doc) ==
    \E i \in 1..Len(doc) :
        /\ "infobase-label-presale" \in doc[i].cls
        /\ Attr(doc[i], "display") # Chars("none")
        /\ ContainsPhrase(doc, i, {Chars("pré-venda")})

\* (b) an availability or status container that contains one of the phrases
StatusContainerPhrase(doc) ==
    \E i \in 1..Len(doc) :
        /\ doc[i].cls \cap {"product-availability", "availability-info", "product-status",
                            "status-info", "preorder-info"} # {}
        /\ ContainsPhrase(doc, i, preOrderIndicators)

\* (c) a product-area container that contains one of the phrases
ProductAreaPhrase(doc) ==
    \E i \in 1..Len(doc) :
        /\ doc[i].cls \cap {"product-main", "product-info", "product-details"} # {}
        /\ ContainsPhrase(doc, i, preOrderIndicators)

\* C23 (as claimed): isPreOrder is true exactly when the visible dedicated
\* element, a status container or a product-area container matches, so that
\* text anywhere else never makes it true
C23_PreOrderByStages ==
    (Service /\ pc = "assemble") =>
        (cur.fields.isPreOrder <=>
            \/ VisiblePresaleElement(cur.doc)
            \/ StatusContainerPhrase(cur.doc)
            \/ ProductAreaPhrase(cur.doc))

\* a visible dedicated element with 'Pré-venda' after an empty hidden one:
\* isPreOrder is false
C23_VisibleAfterHidden ==
    /\ Service /\ pc = "assemble"
    /\ cur.doc = PagePresale(<< <<Chars("none"), <<>>>>, <<Chars("block"), Chars(" Pré-venda ")>> >>,
                             <<>>, <<>>, <<>>)
    /\ VisiblePresaleElement(cur.doc)
    /\ ~cur.fields.isPreOrder

\* what the stages of the id search yield on a page, in their order: the
\* 'Referência' cell, the id attributes and classes, the labelled rows of
\* the details table, the 'referência: TOKEN' match in the page text, the
\* last path segment of the URL without query string and extension
IdStages(doc, url) ==
    << Trim(TextOfAll(doc, Select(doc, ByAttr("td", "data-th", Chars("Referência"))), 1)),
       FirstId(doc, 1),
       FirstLabelledRow(doc, {referencia, Chars("código"), Chars("sku")}, 1),
       globalReferenceMatch(BodyText(doc)),
       BeforeFirst(BeforeFirst(AfterLast(url, "/"), "?"), ".") >>

ExpectedId(stages, now) ==
    IF \E k \in 1..Len(stages) : stages[k] # <<>>
    THEN stages[Min({k \in 1..Len(stages) : stages[k] # <<>>})]
    ELSE Chars("panini-") \o now

ImageStages(doc) ==
    << ExternalBySelector(doc, 1), foundExternalImage(doc), tryConstructImageUrl(doc),
       BySelector(doc, 1), ByContainer(doc, 1), fallbackImage(doc) >>

FirstHit(stages) ==
    IF \E k \in 1..Len(stages) : stages[k] # <<>>
    THEN stages[Min({k \in 1..Len(stages) : stages[k] # <<>>})]
    ELSE <<>>

OnCdn(src) == Includes(src, Chars("cloudfront")) \/ Includes(src, Chars("amazonaws.com"))

\* the source an img element shows: src || data-src || data-lazy || data-original
ShownSource(el) == FirstTruthy(SrcAttributes(el))

\* an img whose source is on the CDN and is not a placeholder
CdnImages(doc) ==
    {i \in 1..Len(doc) : /\ doc[i].tag = "img"
                         /\ OnCdn(ShownSource(doc[i]))
                         /\ ~isPlaceholderImage(ShownSource(doc[i]))}

\* the sources the last resort accepts, by the position of their img
Qualifying(doc) ==
    {i \in 1..Len(doc) :
        /\ doc[i].tag = "img"
        /\ \E k \in 1..4 :
              /\ SrcAttributes(doc[i])[k] # <<>>
              /\ ~isPlaceholderImage(SrcAttributes(doc[i])[k])
              /\ HasImageExtension(SrcAttributes(doc[i])[k])
              /\ \A word \in {"logo", "nav", "icon", "banner"} :
                    ~Includes(SrcAttributes(doc[i])[k], Chars(word))}

\* C25 (as claimed): the image is the hit of the first stage that has one;
\* when the page has an image on the CDN the result is on the CDN, whatever
\* local images precede it; when only the last resort has a hit the result
\* comes from the first qualifying img of the document; and an empty result
\* is never the reason for which the record is not assembled
C25_ImageByPriority ==
    (Service /\ pc = "assemble") =>
        /\ cur.fields.imageUrl = FirstHit(ImageStages(cur.doc))
        /\ CdnImages(cur.doc) # {} => OnCdn(cur.fields.imageUrl)
        /\ (\A k \in 1..5 : ImageStages(cur.doc)[k] = <<>>) =>
              IF Qualifying(cur.doc) = {} THEN cur.fields.imageUrl = <<>>
              ELSE \E k \in 1..4 :
                      cur.fields.imageUrl =
                          Absolute(SrcAttributes(cur.doc[Min(Qualifying(cur.doc))])[k])
        /\ cur.fields.imageUrl = <<>> =>
              (AssembleOutcome(cur).ok <=>
                  AssembleOutcome([cur EXCEPT !.fields.imageUrl =
                                                  Chars("https://d1.cloudfront.net/x.jpg")]).ok)

\* an img with a local src and a CDN data-src before an img shown from the
\* CDN: the local src of the first is returned
C25_LocalSourceOverCdn ==
    /\ Service /\ pc = "assemble"
    /\ cur.doc = PageOk \o
          << Img({[n |-> "src", v |-> Chars("/m/thumb.jpg")],
                  [n |-> "data-src", v |-> Chars("https://d1.cloudfront.net/h.jpg")]}),
             Img({[n |-> "data-lazy", v |-> Chars("https://d1.cloudfront.net/d.jpg")]}) >>
    /\ CdnImages(cur.doc) = {4}
    /\ cur.fields.imageUrl = Chars("/m/thumb.jpg")

\* C26: on a parsed page the extractors called are a beginning of title,
\* prices, pre-order, stock, image, format, contributors, id; the parse
\* fails exactly when the last one called threw, and the promise is rejected
\* with what the catch block makes of that error; with title and price both
\* missing only the title extractor is called; and validation (the assemble
\* stage) is entered only when all eight were called and returned
C26_ExtractorsInOrder ==
    PageParsed =>
        /\ cur.ran # <<>>
        /\ IsPrefix(cur.ran,
                    <<"title", "prices", "preOrder", "stock", "image", "format",
                      "contributors", "id">>)
        /\ \A k \in 1..(Len(cur.ran) - 1) : Attempt(cur.ran[k], cur.doc).ok
        /\ pc = "settled" =>
              /\ ~Attempt(Last(cur.ran), cur.doc).ok
              /\ Last(log).outcome = TryCatch(Attempt(Last(cur.ran), cur.doc), cur.url)
        /\ (~extractTitle(cur.doc).ok /\ ~extractPrices(cur.doc).ok) => cur.ran = <<"title">>
        /\ pc = "assemble" => (Len(cur.ran) = 8 /\ Attempt(Last(cur.ran), cur.doc).ok)

\* a page with neither title nor price: the title extractor alone was called
C26_Witness ==
    /\ PageParsed
    /\ pc = "settled"
    /\ cur.doc = PageEmpty
    /\ ~extractTitle(cur.doc).ok /\ ~extractPrices(cur.doc).ok
    /\ cur.ran = <<"title">>
    /\ Failed(Last(log))

\* the items whose page was fetched and lacked a title or a parsable price:
\* those that failed in the parse stage
ParseFailed(entry) == Failed(entry) /\ entry.stages = <<"validate", "fetch", "parse">>

NormalForm(s) ==
    /\ StartsWith(s, Chars("http://")) \/ StartsWith(s, HTTPS)
    /\ s # <<>> /\ s[Len(s)] # "/"

\* C28 (as claimed): what normalizeUrl returns is in normal form, and
\* normalizeUrl applied to it returns it unchanged, for every non-empty input
C28_NormalizeIdempotent ==
    \A k \in 1..Len(log) :
        log[k].called =>
            /\ log[k].repoUrl = normalizeUrl(Trim(log[k].input.s))
            /\ NormalForm(log[k].repoUrl)
            /\ normalizeUrl(log[k].repoUrl) = log[k].repoUrl

\* an input ending in two slashes: one is removed, the result still ends in
\* a slash and a second application removes the other
C28_SecondSlashKept ==
    \E k \in 1..Len(log) :
        /\ log[k].called
        /\ log[k].input = StrVal(UrlSlashes)
        /\ log[k].repoUrl = normalizeUrl(Trim(UrlSlashes))
        /\ log[k].repoUrl = Chars("http://panini.com.br/d/")
        /\ normalizeUrl(log[k].repoUrl) = Chars("http://panini.com.br/d")

\* the HTTP status of the transport failure behind a failed item: the status
\* of the Axios errors that HttpClient.get turns into the item's error
TransportStatus(entry) ==
    UNION {r.status : r \in {a \in TransportOutcomes :
                                /\ a.t = "axios"
                                /\ HttpClientGet(a).err = entry.httpError}}

\* the URL an item's error is about: the input as given ('' for a falsy one)
\* when the use case rejected it, the URL the repository was called with
\* otherwise
OffendingUrl(entry) ==
    IF entry.called THEN StrVal(entry.repoUrl) ELSE OrEmpty(entry.input)

\* C29 (as claimed): every error of the three kinds carries the offending
\* URL; a ProductScrapingError made from a transport failure that had an HTTP
\* status carries that status in statusCode, besides the underlying message;
\* a ProductNotFoundError carries status 404
C29_ErrorsCarryUrlAndStatus ==
    \A j \in 1..Len(FailedEntries) :
        LET e == FailedEntries[j]
        IN  /\ e.outcome.err.kind \in ScrapingKinds => e.outcome.err.url = OffendingUrl(e)
            /\ (e.httpError # NoError /\ TransportStatus(e) # {}) =>
                  /\ e.outcome.err.kind = "ProductScrapingError"
                  /\ e.outcome.err.statusCode = TransportStatus(e)
                  /\ e.outcome.err.message = "Failed to scrape product: " \o e.httpError.message
            /\ e.outcome.err.kind = "ProductNotFoundError" => e.outcome.err.statusCode = {404}

\* the site answered 500: the error has the status in its message and none
\* in statusCode
C29_StatusOnlyInMessage ==
    /\ Service /\ mode = "single" /\ pc = "done"
    /\ Len(log) = 1
    /\ TransportStatus(log[1]) = {500}
    /\ result.state = "threw"
    /\ result.error.kind = "ProductScrapingError"
    /\ result.error.statusCode = NoStatus
    /\ result.error.message =
          "Failed to scrape product: HTTP request failed: Request failed with status code 500 (500)"
    /\ result.error.url = StrVal(log[1].repoUrl)

(***************************************************************************)
(* ProductEntity: the computed properties                                  *)
(***************************************************************************)
\* what a division by zero leaves behind (NaN): no decimal has this shape
NaN == [m |-> 0, e |-> -1]

\* a - b
Minus(a, b) ==
    LET At(scale) == Normalise([m |-> a.m * Pow10(scale - a.e) - b.m * Pow10(scale - b.e),
                                e |-> scale])
    IN  At(IF a.e > b.e THEN a.e ELSE b.e)

\* Math.round((a / b) * 100) : the nearest integer, a half goes up
RoundedPercent(a, b) ==
    IF b.m = 0 THEN NaN
    ELSE LET Ratio(num, den) == [m |-> (200 * num + den) \div (2 * den), e |-> 0]
         IN  Ratio(a.m * Pow10(b.e), b.m * Pow10(a.e))

\* get hasDiscount: this.currentPrice < this.fullPrice
hasDiscount(p) == Gt(p.fullPrice, p.currentPrice)

\* get discountPercentage
discountPercentage(p) ==
    IF ~hasDiscount(p) THEN Zero
    ELSE RoundedPercent(Minus(p.fullPrice, p.currentPrice), p.fullPrice)

\* get savingsAmount: this.fullPrice - this.currentPrice
savingsAmount(p) == Minus(p.fullPrice, p.currentPrice)

\* prices are drawn in tenths, from one below zero up to MaxTenths tenths
MaxTenths == 12

PriceSamples == {Normalise([m |-> k, e |-> 1]) : k \in -1..MaxTenths}

EntityFields(fullPrice, currentPrice) ==
    [StubProduct(Chars("https://panini.com.br/a"))
        EXCEPT !.fullPrice = fullPrice, !.currentPrice = currentPrice]

\* a caller about to construct a ProductEntity with some pair of prices
EntityInit ==
    /\ mode = "entity"
    /\ repoKind = "service"
    /\ urls = <<>>
    /\ pc = "construct"
    /\ iter = 0
    /\ \E fullPrice \in PriceSamples : \E currentPrice \in PriceSamples :
          cur = [NoCur EXCEPT !.fields = EntityFields(fullPrice, currentPrice)]
    /\ item = NoItem
    /\ successes = <<>>
    /\ failures = <<>>
    /\ result = NoResult
    /\ inflight = {}
    /\ response = NoResponse
    /\ log = <<>>
    /\ calls = <<>>
    /\ tasks = <<>>
    /\ sent = <<>>

\* new ProductEntity(...) : the constructor returns the entity or throws
Construct ==
    /\ pc = "construct"
    /\ item' = ProductEntity(cur.fields)
    /\ pc' = "constructed"
    /\ UNCHANGED <<sent, tasks, mode, repoKind, urls, iter, cur, successes, failures, result,
                   inflight, response, log, calls>>

EntityNext == Construct

EntitySpec == EntityInit /\ [][EntityNext]_vars

\* the entity that was constructed passed validation
Validated == pc = "constructed" /\ item.ok

\* n is the integer nearest to 100 * part / whole, a half going up
NearestPercent(n, part, whole) ==
    LET Between(num, den) == (2 * n - 1) * den <= 200 * num /\ 200 * num < (2 * n + 1) * den
    IN  Between(part.m * Pow10(whole.e), whole.m * Pow10(part.e))

\* C30: for every ProductEntity that passes validation, hasDiscount holds
\* exactly when currentPrice < fullPrice; discountPercentage is 0 without a
\* discount and otherwise the rounded percentage of the difference in the
\* full price, an integer in 0..100 that is never computed with a full price
\* of 0; savingsAmount is fullPrice - currentPrice and is never negative.
\* An entity is constructed only from prices that validation accepts.
C30_DiscountProperties ==
    /\ Validated =>
          LET Holds(p) ==
                /\ hasDiscount(p) <=>
                      p.currentPrice.m * Pow10(p.fullPrice.e)
                          < p.fullPrice.m * Pow10(p.currentPrice.e)
                /\ ~hasDiscount(p) => discountPercentage(p) = Zero
                /\ hasDiscount(p) =>
                      /\ p.fullPrice.m # 0
                      /\ NearestPercent(discountPercentage(p).m,
                                        Minus(p.fullPrice, p.currentPrice), p.fullPrice)
                /\ discountPercentage(p) # NaN
                /\ discountPercentage(p).e = 0
                /\ discountPercentage(p).m \in 0..100
                /\ savingsAmount(p).m * Pow10(p.fullPrice.e) * Pow10(p.currentPrice.e)
                      = Pow10(savingsAmount(p).e)
                          * (p.fullPrice.m * Pow10(p.currentPrice.e)
                               - p.currentPrice.m * Pow10(p.fullPrice.e))
                /\ savingsAmount(p).m >= 0
          IN  Holds(item.val)
    /\ pc = "constructed" =>
          (item.ok <=> /\ cur.fields.fullPrice.m >= 0
                       /\ cur.fields.currentPrice.m >= 0
                       /\ ~Gt(cur.fields.currentPrice, cur.fields.fullPrice))

\* full price 1.2 and current price 0.7: a discount of 42 percent (41.67
\* rounded), savings of 0.5
C30_Witness ==
    /\ Validated
    /\ item.val.fullPrice = [m |-> 12, e |-> 1]
    /\ item.val.currentPrice = [m |-> 7, e |-> 1]
    /\ hasDiscount(item.val)
    /\ discountPercentage(item.val) = [m |-> 42, e |-> 0]
    /\ savingsAmount(item.val) = [m |-> 5, e |-> 1]

====
